---- MODULE Spec2Model ----
(***************************************************************************)
(* Verification model of the ddlc repository.                              *)
(*                                                                         *)
(*   - the Agent Blueprint Generator (app/blueprint_generator/engine.py):  *)
(*     BlueprintEngine.__init__ and BlueprintEngine.generate with every    *)
(*     helper it calls, as operators over the engine's fields;             *)
(*   - the DDLC session lifecycle (app/ddlc/server.py, app/ddlc/store.py,  *)
(*     app/activities.py, app/workflow.py): the session store, the HTTP    *)
(*     handlers and the approval workflow's activities as actions.         *)
(*                                                                         *)
(* A Python str is a sequence of one-character strings; the two characters *)
(* outside ASCII are written "endash" (U+2013) and "emdash" (U+2014).      *)
(***************************************************************************)
EXTENDS Integers, Sequences, FiniteSets, TLC

\* ------------------------------------------------------------------------
\* Python str operations used by the engine
\* ------------------------------------------------------------------------

\* Unicode code point of a character (the order sorted() compares by)
Ord(c) ==
    CASE c = " " -> 32   [] c = "-" -> 45   [] c = "." -> 46
      [] c = "A" -> 65   [] c = "B" -> 66   [] c = "_" -> 95
      [] c = "a" -> 97   [] c = "b" -> 98   [] c = "d" -> 100
      [] c = "e" -> 101  [] c = "f" -> 102  [] c = "g" -> 103
      [] c = "h" -> 104  [] c = "i" -> 105  [] c = "n" -> 110
      [] c = "o" -> 111  [] c = "p" -> 112  [] c = "r" -> 114
      [] c = "s" -> 115  [] c = "t" -> 116  [] c = "y" -> 121
      [] c = "endash" -> 8211  [] c = "emdash" -> 8212

LowerCase == {"a", "b", "d", "e", "f", "g", "h", "i", "n", "o", "p", "r", "s", "t", "y"}

\* str.lower() on one character
LowerChar(c) == CASE c = "A" -> "a" [] c = "B" -> "b" [] OTHER -> c

\* str.upper() on one character
UpperChar(c) ==
    CASE c = "a" -> "A" [] c = "b" -> "B" [] c = "d" -> "D" [] c = "e" -> "E"
      [] c = "f" -> "F" [] c = "g" -> "G" [] c = "h" -> "H" [] c = "i" -> "I"
      [] c = "n" -> "N" [] c = "o" -> "O" [] c = "p" -> "P" [] c = "r" -> "R"
      [] c = "s" -> "S" [] c = "t" -> "T" [] c = "y" -> "Y" [] OTHER -> c

UpperCase == {UpperChar(c) : c \in LowerCase}

IsCased(c) == c \in LowerCase \cup UpperCase

\* str.lower()
Lower(s) == [i \in 1..Len(s) |-> LowerChar(s[i])]

\* str.title(): a cased character is capitalised when it follows an uncased
\* one (or starts the string) and lowered otherwise
Title(s) ==
    [i \in 1..Len(s) |->
        IF i = 1 \/ ~IsCased(s[i - 1]) THEN UpperChar(s[i]) ELSE LowerChar(s[i])]

\* str.replace(old, new) for single characters
ReplaceChar(s, old, new) == [i \in 1..Len(s) |-> IF s[i] = old THEN new ELSE s[i]]

\* str.replace("__", "_"): one left-to-right pass over non-overlapping matches
RECURSIVE ReplaceDoubleUnderscore(_)
ReplaceDoubleUnderscore(s) ==
    IF Len(s) < 2 THEN s
    ELSE IF s[1] = "_" /\ s[2] = "_"
         THEN <<"_">> \o ReplaceDoubleUnderscore(SubSeq(s, 3, Len(s)))
         ELSE <<s[1]>> \o ReplaceDoubleUnderscore(Tail(s))

\* str.strip("_")
RECURSIVE LStrip(_)
LStrip(s) == IF s # <<>> /\ s[1] = "_" THEN LStrip(Tail(s)) ELSE s

RECURSIVE RStrip(_)
RStrip(s) ==
    IF s # <<>> /\ s[Len(s)] = "_" THEN RStrip(SubSeq(s, 1, Len(s) - 1)) ELSE s

Strip(s) == RStrip(LStrip(s))

\* s < t for two str values (lexicographic by code point)
RECURSIVE StrLess(_, _)
StrLess(s, t) ==
    IF t = <<>> THEN FALSE
    ELSE IF s = <<>> THEN TRUE
    ELSE IF s[1] = t[1] THEN StrLess(Tail(s), Tail(t))
    ELSE Ord(s[1]) < Ord(t[1])

\* sorted(list of str): insertion into an ascending list, stable
RECURSIVE InsertSorted(_, _)
InsertSorted(x, l) ==
    IF l = <<>> THEN <<x>>
    ELSE IF StrLess(x, l[1]) THEN <<x>> \o l
    ELSE <<l[1]>> \o InsertSorted(x, Tail(l))

RECURSIVE Sorted(_)
Sorted(l) ==
    IF l = <<>> THEN <<>>
    ELSE InsertSorted(l[Len(l)], Sorted(SubSeq(l, 1, Len(l) - 1)))

\* sep.join(list of str)
RECURSIVE Join(_, _)
Join(sep, l) ==
    IF l = <<>> THEN <<>>
    ELSE IF Len(l) = 1 THEN l[1]
    ELSE l[1] \o sep \o Join(sep, Tail(l))

\* The elements of a list, and a list without repeated elements
Range(l) == {l[i] : i \in 1..Len(l)}

NoDup(l) == \A i, j \in 1..Len(l) : l[i] = l[j] => i = j

\* [f(x) for x in l] concatenated, for a list-valued f
RECURSIVE FlatMap(_, _)
FlatMap(F(_), l) == IF l = <<>> THEN <<>> ELSE F(l[1]) \o FlatMap(F, Tail(l))

\* [f(x) for x in l]
Map(F(_), l) == [i \in 1..Len(l) |-> F(l[i])]

\* ------------------------------------------------------------------------
\* Blueprint generator: models.py, archetypes.py
\* ------------------------------------------------------------------------

DATA_ACCESS == "data_access"
DOMAIN_LOGIC == "domain_logic"
MUTATION == "mutation"
STYLE == "style"

SkillCategory == {DATA_ACCESS, DOMAIN_LOGIC, MUTATION, STYLE}

\* The tags and archetype keys of the model, as str values
Tag_shared == <<"s", "h", "a", "r", "e", "d">>
Tag_infra == <<"i", "n", "f", "r", "a">>
Tag_a == <<"a">>
Tag_b == <<"b">>
Tag_a_b == <<"a", "_", "b">>
Tag_a_dash_b == <<"a", "-", "b">>

Key_reporting == <<"r", "e", "p", "o", "r", "t", "i", "n", "g">>
Key_tagging == <<"t", "a", "g", "g", "i", "n", "g">>
Key_any == <<"a", "n", "y">>

SHARED_DOMAIN_TAGS == {Tag_shared, Tag_infra}

\* SkillNugget(id, name, description, domain_tags, category)
SkillNugget(id, tags, category) ==
    [id |-> id, name |-> id, domain_tags |-> tags, category |-> category,
     type |-> "skill"]

\* EvaluationNugget(id, name, description, domain_tags, examples); it has no
\* category field ("none" is never read)
EvaluationNugget(id, tags) ==
    [id |-> id, name |-> id, domain_tags |-> tags, category |-> "none",
     type |-> "evaluation"]

\* A format template with one "{domain}" placeholder: the text before and
\* after it
Template(pre, post) == [pre |-> pre, post |-> post]

\* template.format(domain=label)
Format(template, label) == <<template.pre, label, template.post>>

\* AgentArchetype(key, name_template, description_template,
\* required_categories, optional_categories, capability_templates,
\* semantic_view_name_template)
AgentArchetype(key, name_t, description_t, required, optional, capabilities, sv_name_t) ==
    [key |-> key, name_template |-> name_t, description_template |-> description_t,
     required_categories |-> required, optional_categories |-> optional,
     capability_templates |-> capabilities,
     semantic_view_name_template |-> sv_name_t]

\* The built-in catalog
ARCHETYPES ==
    << AgentArchetype(Key_reporting,
                      Template("", " Reporting Agent"),
                      Template("An agent that queries data via MDLH, applies ",
                               "-specific logic, and produces formatted reports."),
                      {DATA_ACCESS, DOMAIN_LOGIC}, {STYLE},
                      <<"Query Atlan metadata and domain datasets via MDLH",
                        "Apply domain-specific joins and business logic",
                        "Generate formatted summaries and reports">>,
                      Template("", " Reporting - Semantic View")),
       AgentArchetype(Key_tagging,
                      Template("", " Tagging Agent"),
                      Template("An agent that scans Atlan assets, identifies candidates for classification, and applies ",
                               "-related tags/metadata."),
                      {DATA_ACCESS, MUTATION}, {},
                      <<"Scan Atlan assets for classification candidates",
                        "Apply tags and metadata according to governance rules",
                        "Respect edge-case expectations from evaluation packs">>,
                      Template("", " Tagging - Semantic View")) >>

\* ------------------------------------------------------------------------
\* Blueprint generator: engine.py
\* ------------------------------------------------------------------------

\* BlueprintEngine.__init__: the fields of a constructed engine; the
\* archetypes argument is None or a list, and "archetypes or ARCHETYPES"
\* takes the built-in catalog for None and for every falsy list
None == [is_none |-> TRUE, list |-> <<>>]

Some(l) == [is_none |-> FALSE, list |-> l]

BlueprintEngine(nuggets_arg, archetypes_arg) ==
    [nuggets |-> nuggets_arg,
     archetypes |-> IF archetypes_arg.is_none \/ archetypes_arg.list = <<>>
                    THEN ARCHETYPES ELSE archetypes_arg.list,
     skills |-> SelectSeq(nuggets_arg, LAMBDA n : n.type = "skill"),
     evaluations |-> SelectSeq(nuggets_arg, LAMBDA n : n.type = "evaluation")]

\* The keys of the index in insertion order (a dict keeps first-insertion
\* order)
RECURSIVE FirstOccurrences(_, _)
FirstOccurrences(l, seen) ==
    IF l = <<>> THEN <<>>
    ELSE IF l[1] \in seen THEN FirstOccurrences(Tail(l), seen)
    ELSE <<l[1]>> \o FirstOccurrences(Tail(l), seen \cup {l[1]})

\* _index_by_domain: domain_tag -> the nuggets carrying it, one entry per
\* occurrence of the tag, in nugget order
index_by_domain(self) ==
    LET occurrences == FlatMap(LAMBDA n : n.domain_tags, self.nuggets)
        keys == FirstOccurrences(occurrences, {})
        bucket(tag) ==
            FlatMap(LAMBDA n :
                        FlatMap(LAMBDA t : IF t = tag THEN <<n>> ELSE <<>>,
                                n.domain_tags),
                    self.nuggets)
    IN  [keys |-> keys, get |-> [tag \in Range(keys) |-> bucket(tag)]]

\* get_shared_skills testing "every tag is reserved" in place of "some tag
\* is reserved": a skill without tags counts as shared
get_shared_skills_subset(self) ==
    SelectSeq(self.skills,
              LAMBDA s : Range(s.domain_tags) \subseteq SHARED_DOMAIN_TAGS)

\* _get_shared_skills
get_shared_skills(self) ==
    SelectSeq(self.skills,
              LAMBDA s : Range(s.domain_tags) \cap SHARED_DOMAIN_TAGS # {})

\* The id-deduplication loop of _collect_domain_cluster (first occurrence
\* wins)
RECURSIVE MergeById(_, _)
MergeById(l, seen_ids) ==
    IF l = <<>> THEN <<>>
    ELSE IF l[1].id \in seen_ids THEN MergeById(Tail(l), seen_ids)
    ELSE <<l[1]>> \o MergeById(Tail(l), seen_ids \cup {l[1].id})

\* collect_domain_cluster merging shared_skills + domain_skills: the shared
\* skills come first
collect_domain_cluster_shared_first(self, domain, domain_index) ==
    LET shared_skills == get_shared_skills(self)
        domain_nuggets == IF domain \in DOMAIN domain_index.get
                          THEN domain_index.get[domain] ELSE <<>>
        domain_skills == SelectSeq(domain_nuggets, LAMBDA n : n.type = "skill")
        domain_evals == SelectSeq(domain_nuggets, LAMBDA n : n.type = "evaluation")
    IN  [skills |-> MergeById(shared_skills \o domain_skills, {}),
         evals |-> domain_evals]

\* collect_domain_cluster treating evaluations as it treats skills: the
\* evaluations carrying a reserved tag join every cluster
collect_domain_cluster_shared_evals(self, domain, domain_index) ==
    LET shared_skills == get_shared_skills(self)
        domain_nuggets == IF domain \in DOMAIN domain_index.get
                          THEN domain_index.get[domain] ELSE <<>>
        domain_skills == SelectSeq(domain_nuggets, LAMBDA n : n.type = "skill")
        domain_evals == SelectSeq(domain_nuggets, LAMBDA n : n.type = "evaluation")
        shared_evals ==
            SelectSeq(self.evaluations,
                      LAMBDA e : Range(e.domain_tags) \cap SHARED_DOMAIN_TAGS # {})
    IN  [skills |-> MergeById(domain_skills \o shared_skills, {}),
         evals |-> MergeById(domain_evals \o shared_evals, {})]

\* _collect_domain_cluster: (merged_skills, domain_evals)
collect_domain_cluster(self, domain, domain_index) ==
    LET shared_skills == get_shared_skills(self)
        domain_nuggets == IF domain \in DOMAIN domain_index.get
                          THEN domain_index.get[domain] ELSE <<>>
        domain_skills == SelectSeq(domain_nuggets, LAMBDA n : n.type = "skill")
        domain_evals == SelectSeq(domain_nuggets, LAMBDA n : n.type = "evaluation")
    IN  [skills |-> MergeById(domain_skills \o shared_skills, {}),
         evals |-> domain_evals]

\* match_archetype keeping the skills of the required categories only
match_archetype_required_only(archetype, skills, evals) ==
    LET available_categories == {skills[i].category : i \in 1..Len(skills)}
    IN  IF ~(archetype.required_categories \subseteq available_categories)
        THEN [ok |-> FALSE, skills |-> <<>>, evals |-> <<>>]
        ELSE [ok |-> TRUE,
              skills |-> SelectSeq(skills,
                             LAMBDA s : s.category \in archetype.required_categories),
              evals |-> evals]

\* match_archetype refusing a cluster without skills, whatever the archetype
\* requires
match_archetype_nonempty(archetype, skills, evals) ==
    LET available_categories == {skills[i].category : i \in 1..Len(skills)}
        relevant_categories ==
            archetype.required_categories \cup archetype.optional_categories
    IN  IF available_categories = {}
           \/ ~(archetype.required_categories \subseteq available_categories)
        THEN [ok |-> FALSE, skills |-> <<>>, evals |-> <<>>]
        ELSE [ok |-> TRUE,
              skills |-> SelectSeq(skills,
                                   LAMBDA s : s.category \in relevant_categories),
              evals |-> evals]

\* match_archetype without the issubset() test: every archetype matches
match_archetype_always(archetype, skills, evals) ==
    LET relevant_categories ==
            archetype.required_categories \cup archetype.optional_categories
    IN  [ok |-> TRUE,
         skills |-> SelectSeq(skills,
                              LAMBDA s : s.category \in relevant_categories),
         evals |-> evals]

\* match_archetype with any() in place of issubset(): one required category
\* is enough
match_archetype_any(archetype, skills, evals) ==
    LET available_categories == {skills[i].category : i \in 1..Len(skills)}
        relevant_categories ==
            archetype.required_categories \cup archetype.optional_categories
    IN  IF archetype.required_categories \cap available_categories = {}
        THEN [ok |-> FALSE, skills |-> <<>>, evals |-> <<>>]
        ELSE [ok |-> TRUE,
              skills |-> SelectSeq(skills,
                                   LAMBDA s : s.category \in relevant_categories),
              evals |-> evals]

\* _match_archetype: the matched nuggets, or no match (Python's None)
NoMatch == [ok |-> FALSE, skills |-> <<>>, evals |-> <<>>]

match_archetype(archetype, skills, evals) ==
    LET available_categories == {skills[i].category : i \in 1..Len(skills)}
        relevant_categories ==
            archetype.required_categories \cup archetype.optional_categories
    IN  IF ~(archetype.required_categories \subseteq available_categories)
        THEN NoMatch
        ELSE [ok |-> TRUE,
              skills |-> SelectSeq(skills,
                                   LAMBDA s : s.category \in relevant_categories),
              evals |-> evals]

\* _make_slug: lower, "-" " " and en-dash to "_", one pass of "__" to "_",
\* strip "_"
make_slug(text) ==
    Strip(ReplaceDoubleUnderscore(
        ReplaceChar(ReplaceChar(ReplaceChar(Lower(text), "-", "_"), " ", "_"),
                    "endash", "_")))

\* domain.replace("_", " ").title()
DomainLabel(domain) == Title(ReplaceChar(domain, "_", " "))

\* CapabilityLines without the elif branch: no line for a DOMAIN_LOGIC skill
CapabilityLines_style_only(skills) ==
    FlatMap(LAMBDA s :
                IF s.category = STYLE THEN <<"Format output using: " \o s.name>>
                ELSE <<>>,
            skills)

\* The capability loop of _build_blueprints: one line per STYLE or
\* DOMAIN_LOGIC skill
CapabilityLines(skills) ==
    FlatMap(LAMBDA s :
                IF s.category = STYLE THEN <<"Format output using: " \o s.name>>
                ELSE IF s.category = DOMAIN_LOGIC
                     THEN <<"Apply domain logic from: " \o s.name>>
                     ELSE <<>>,
            skills)

\* build_blueprints listing the evaluation ids before the skill ids in
\* nugget_ids
build_blueprints_evals_first(domain, archetype, skills, evals) ==
    LET domain_label == DomainLabel(domain)
        slug == make_slug(domain \o <<"_">> \o archetype.key)
        skill_ids == Map(LAMBDA s : s.id, skills)
        eval_ids == Map(LAMBDA e : e.id, evals)
        sv == [id |-> <<"s", "v", "b", ".">> \o slug,
               name |-> Format(archetype.semantic_view_name_template, domain_label),
               purpose |-> <<"Provides the context an agent needs to perform ",
                             archetype.key, " tasks in the ", domain_label,
                             " domain.">>,
               domains |-> <<domain>>,
               nugget_ids |-> eval_ids \o skill_ids,
               skill_nugget_ids |-> skill_ids,
               evaluation_nugget_ids |-> eval_ids]
        ab == [id |-> <<"a", "g", "e", "n", "t", ".">> \o slug,
               name |-> Format(archetype.name_template, domain_label),
               description |-> Format(archetype.description_template, domain_label),
               semantic_view_id |-> sv.id,
               agent_type |-> archetype.key,
               expected_capabilities |->
                   archetype.capability_templates \o CapabilityLines(skills),
               evaluation_nugget_ids |-> eval_ids]
    IN  [sv |-> sv, ab |-> ab]

\* _build_blueprints: one (SemanticViewBlueprint, AgentBlueprint) pair
build_blueprints(domain, archetype, skills, evals) ==
    LET domain_label == DomainLabel(domain)
        slug == make_slug(domain \o <<"_">> \o archetype.key)
        skill_ids == Map(LAMBDA s : s.id, skills)
        eval_ids == Map(LAMBDA e : e.id, evals)
        sv == [id |-> <<"s", "v", "b", ".">> \o slug,
               name |-> Format(archetype.semantic_view_name_template, domain_label),
               purpose |-> <<"Provides the context an agent needs to perform ",
                             archetype.key, " tasks in the ", domain_label,
                             " domain.">>,
               domains |-> <<domain>>,
               nugget_ids |-> skill_ids \o eval_ids,
               skill_nugget_ids |-> skill_ids,
               evaluation_nugget_ids |-> eval_ids]
        ab == [id |-> <<"a", "g", "e", "n", "t", ".">> \o slug,
               name |-> Format(archetype.name_template, domain_label),
               description |-> Format(archetype.description_template, domain_label),
               semantic_view_id |-> sv.id,
               agent_type |-> archetype.key,
               expected_capabilities |->
                   archetype.capability_templates \o CapabilityLines(skills),
               evaluation_nugget_ids |-> eval_ids]
    IN  [sv |-> sv, ab |-> ab]

\* DedupKey with tuple(nugget_ids) in place of frozenset(nugget_ids)
DedupKey_ordered(pair) == <<pair.ab.agent_type, pair.sv.nugget_ids>>

\* DedupKey without the nugget ids
DedupKey_type_only(pair) == <<pair.ab.agent_type, {}>>

\* The deduplication key of a pair: (agent_type, frozenset(nugget_ids))
DedupKey(pair) == <<pair.ab.agent_type, Range(pair.sv.nugget_ids)>>

\* AppendMissing inserting a missing domain at the front of the list
\* (domains.insert(0, d))
AppendMissing_prepend(existing, new) ==
    SelectSeq(new, LAMBDA d : d \notin Range(existing)) \o existing

\* AppendMissing without the "if d not in existing_sv.domains" test
AppendMissing_unchecked(existing, new) == existing \o new

\* The "for d in sv.domains: if d not in existing_sv.domains: append" loop
RECURSIVE AppendMissing(_, _)
AppendMissing(existing, new) ==
    IF new = <<>> THEN existing
    ELSE IF new[1] \in Range(existing) THEN AppendMissing(existing, Tail(new))
    ELSE AppendMissing(Append(existing, new[1]), Tail(new))

\* MergeInto without the rewrite of the agent's semantic_view_id
MergeInto_stale_link(existing, pair) ==
    LET domains == AppendMissing(existing.sv.domains, pair.sv.domains)
        domain_label == Join(<<" ", "&", " ">>, Map(DomainLabel, Sorted(domains)))
        archetype_key == pair.ab.agent_type
        slug == make_slug(Join(<<"_">>, Sorted(domains)) \o <<"_">> \o archetype_key)
        sv_id == <<"s", "v", "b", ".">> \o slug
    IN  [sv |-> [existing.sv EXCEPT
                   !.domains = domains,
                   !.id = sv_id,
                   !.name = <<domain_label, " ", Title(archetype_key),
                              " - Semantic View">>,
                   !.purpose = <<"Provides the context an agent needs to perform ",
                                 archetype_key, " tasks across the ", domain_label,
                                 " domains.">>],
         ab |-> [existing.ab EXCEPT
                   !.id = <<"a", "g", "e", "n", "t", ".">> \o slug,
                   !.name = <<domain_label, " ", Title(archetype_key), " Agent">>,
                   !.description = <<"An agent that performs ", archetype_key,
                                     " tasks across the ", domain_label,
                                     " domains.">>]]

\* The "if key in seen" branch of _deduplicate_blueprints: the surviving
\* pair after the in-place merge of pair (sv, ab) into it
MergeInto(existing, pair) ==
    LET domains == AppendMissing(existing.sv.domains, pair.sv.domains)
        domain_label == Join(<<" ", "&", " ">>, Map(DomainLabel, Sorted(domains)))
        archetype_key == pair.ab.agent_type
        slug == make_slug(Join(<<"_">>, Sorted(domains)) \o <<"_">> \o archetype_key)
        sv_id == <<"s", "v", "b", ".">> \o slug
    IN  [sv |-> [existing.sv EXCEPT
                   !.domains = domains,
                   !.id = sv_id,
                   !.name = <<domain_label, " ", Title(archetype_key),
                              " - Semantic View">>,
                   !.purpose = <<"Provides the context an agent needs to perform ",
                                 archetype_key, " tasks across the ", domain_label,
                                 " domains.">>],
         ab |-> [existing.ab EXCEPT
                   !.id = <<"a", "g", "e", "n", "t", ".">> \o slug,
                   !.name = <<domain_label, " ", Title(archetype_key), " Agent">>,
                   !.semantic_view_id = sv_id,
                   !.description = <<"An agent that performs ", archetype_key,
                                     " tasks across the ", domain_label,
                                     " domains.">>]]

\* The loop of _deduplicate_blueprints over the zipped pairs: seen maps a key
\* to its index in merged (0-based in the code, 1-based here)
RECURSIVE DedupLoop(_, _, _)
DedupLoop(pairs, seen, merged) ==
    IF pairs = <<>> THEN merged
    ELSE LET pair == pairs[1]
             key == DedupKey(pair)
         IN  IF key \in DOMAIN seen
             THEN DedupLoop(Tail(pairs), seen,
                            [merged EXCEPT ![seen[key]] = MergeInto(@, pair)])
             ELSE DedupLoop(Tail(pairs), (key :> Len(merged) + 1) @@ seen,
                            Append(merged, pair))

\* _deduplicate_blueprints
deduplicate_blueprints(pairs) == DedupLoop(pairs, <<>>, <<>>)

\* TargetDomains without the SHARED_DOMAIN_TAGS filter
TargetDomains_unfiltered(domain_index) == domain_index.keys

\* The non-shared keys of the index, in index order
TargetDomains(domain_index) ==
    SelectSeq(domain_index.keys, LAMBDA d : d \notin SHARED_DOMAIN_TAGS)

\* BuiltPairs without sorted(): the target domains are walked in index order
BuiltPairs_index_order(self) ==
    LET domain_index == index_by_domain(self)
    IN  FlatMap(LAMBDA domain :
                    LET cluster == collect_domain_cluster(self, domain, domain_index)
                    IN  FlatMap(LAMBDA archetype :
                                    LET match == match_archetype(archetype,
                                                     cluster.skills, cluster.evals)
                                    IN  IF ~match.ok THEN <<>>
                                        ELSE <<build_blueprints(domain, archetype,
                                                   match.skills, match.evals)>>,
                                self.archetypes),
                TargetDomains(domain_index))

\* The double loop of generate(): the pairs built for every sorted target
\* domain and every archetype that matches, before deduplication
BuiltPairs(self) ==
    LET domain_index == index_by_domain(self)
    IN  FlatMap(LAMBDA domain :
                    LET cluster == collect_domain_cluster(self, domain, domain_index)
                    IN  FlatMap(LAMBDA archetype :
                                    LET match == match_archetype(archetype,
                                                     cluster.skills, cluster.evals)
                                    IN  IF ~match.ok THEN <<>>
                                        ELSE <<build_blueprints(domain, archetype,
                                                   match.skills, match.evals)>>,
                                self.archetypes),
                Sorted(TargetDomains(domain_index)))

\* generate(): the returned dict
generate(self) ==
    LET domain_index == index_by_domain(self)
        merged == deduplicate_blueprints(BuiltPairs(self))
    IN  [semantic_view_blueprints |-> Map(LAMBDA p : p.sv, merged),
         agent_blueprints |-> Map(LAMBDA p : p.ab, merged),
         metadata |->
             [nuggets_analyzed |-> Len(self.nuggets),
              skill_nuggets |-> Len(self.skills),
              evaluation_nuggets |-> Len(self.evaluations),
              domains_found |-> Sorted(TargetDomains(domain_index)),
              archetypes_checked |-> Map(LAMBDA a : a.key, self.archetypes)]]

\* ArchetypeAfterBuild when the relevant categories are gathered by an
\* in-place union (required_categories |= optional_categories)
ArchetypeAfterBuild_union_in_place(archetype, skills) ==
    [archetype EXCEPT !.required_categories = @ \cup archetype.optional_categories]

\* ArchetypeAfterBuild without the list() copy: the capability loop appends
\* to the archetype's own list
ArchetypeAfterBuild_aliased(archetype, skills) ==
    [archetype EXCEPT !.capability_templates = @ \o CapabilityLines(skills)]

\* list(archetype.capability_templates) in _build_blueprints copies the
\* list, so the appends of the capability loop leave the archetype's own
\* list as it was: the archetype after one _build_blueprints call
ArchetypeAfterBuild(archetype, skills) == archetype

\* The archetype list of the engine after generate(): every
\* _build_blueprints call of the double loop applied to its archetype
RECURSIVE ArchetypeAfterDomains(_, _, _, _)
ArchetypeAfterDomains(self, archetype, domains, domain_index) ==
    IF domains = <<>> THEN archetype
    ELSE LET cluster == collect_domain_cluster(self, domains[1], domain_index)
             match == match_archetype(archetype, cluster.skills, cluster.evals)
         IN  ArchetypeAfterDomains(self,
                 IF match.ok THEN ArchetypeAfterBuild(archetype, match.skills)
                 ELSE archetype,
                 Tail(domains), domain_index)

ArchetypesAfterGenerate(self) ==
    LET domain_index == index_by_domain(self)
    IN  Map(LAMBDA a : ArchetypeAfterDomains(self, a,
                           Sorted(TargetDomains(domain_index)), domain_index),
            self.archetypes)

\* ------------------------------------------------------------------------
\* Blueprint generator: the inputs of the model
\* ------------------------------------------------------------------------

\* Longest nugget list given to an engine, and most generate() calls made
\* on one input
MaxNuggets == 4

MaxCalls == 2

\* Most engines constructed from one pair of arguments
MaxEngines == 2

\* The nuggets an input list is drawn from: a shared skill, domain skills of
\* every category, a skill without tags, a skill that is both domain-tagged
\* and shared, evaluations with domain tags and with a reserved tag only
NuggetPool ==
    << SkillNugget("skill.q", <<Tag_shared, Tag_infra>>, DATA_ACCESS),
       SkillNugget("skill.j", <<Tag_a>>, DOMAIN_LOGIC),
       SkillNugget("skill.u", <<Tag_a, Tag_b>>, MUTATION),
       SkillNugget("skill.s", <<Tag_a, Tag_a_dash_b>>, STYLE),
       EvaluationNugget("eval.e", <<Tag_a, Tag_b>>),
       SkillNugget("skill.u2", <<Tag_a_b>>, MUTATION),
       SkillNugget("skill.x", <<>>, DOMAIN_LOGIC),
       SkillNugget("skill.d", <<Tag_b, Tag_shared>>, DATA_ACCESS),
       EvaluationNugget("eval.e2", <<Tag_shared>>),
       EvaluationNugget("eval.x", <<>>) >>

\* Every list of at most MaxNuggets distinct nuggets of the pool, in any
\* order
NuggetLists ==
    UNION { { Map(LAMBDA i : NuggetPool[i], l) :
                l \in { m \in [1..k -> 1..Len(NuggetPool)] : NoDup(m) } } :
            k \in 0..MaxNuggets }

\* Archetypes a caller passes besides the built-in ones
AnyArchetype ==
    AgentArchetype(Key_any, Template("", " Agent"), Template("An agent for ", "."),
                   {}, {STYLE}, <<"Answer questions">>,
                   Template("", " - Semantic View"))

ReportingLite ==
    AgentArchetype(Key_reporting, Template("", " Reporting Agent"),
                   Template("A reporting agent for ", "."),
                   {DATA_ACCESS}, {DOMAIN_LOGIC, STYLE}, <<"Query Atlan metadata">>,
                   Template("", " Reporting - Semantic View"))

\* The archetypes argument of the constructor: omitted, the empty list, a
\* one-element list, the built-in archetypes reversed, two archetypes with
\* one key
ArchetypeArgs ==
    { None, Some(<<>>), Some(<<AnyArchetype>>),
      Some(<<ARCHETYPES[2], ARCHETYPES[1]>>),
      Some(<<ARCHETYPES[1], ReportingLite>>) }

\* ------------------------------------------------------------------------
\* DDLC: models.py
\* ------------------------------------------------------------------------

REQUEST == "request"
DISCOVERY == "discovery"
SPECIFICATION == "specification"
REVIEW == "review"
APPROVAL == "approval"
ACTIVE == "active"
REJECTED == "rejected"

DDLCStage == {REQUEST, DISCOVERY, SPECIFICATION, REVIEW, APPROVAL, ACTIVE, REJECTED}

STAGE_ORDER == <<REQUEST, DISCOVERY, SPECIFICATION, REVIEW, APPROVAL, ACTIVE>>

\* STAGE_ORDER.index(stage), counted from 1
StageIndex(stage) == CHOOSE i \in 1..Len(STAGE_ORDER) : STAGE_ORDER[i] = stage

PROPOSED == "proposed"
DRAFT == "draft"

\* ContractStatus.ACTIVE has the value "active", as DDLCStage.ACTIVE has
STAGE_TO_CONTRACT_STATUS ==
    [stage \in Range(STAGE_ORDER) |->
        CASE stage \in {REQUEST, DISCOVERY} -> PROPOSED
          [] stage \in {SPECIFICATION, REVIEW, APPROVAL} -> DRAFT
          [] stage = ACTIVE -> "active"]

\* Optional[str] = None
NoneStr == "None"

\* StageTransition(from_stage, to_stage, transitioned_by, reason)
StageTransition(from_stage, to_stage, by) ==
    [from_stage |-> from_stage, to_stage |-> to_stage, transitioned_by |-> by]

\* ColumnSource(source_table, source_column, ...)
ColumnSource(source_table, source_column) ==
    [source_table |-> source_table, source_column |-> source_column]

\* SchemaProperty(name, ..., sources)
SchemaProperty(name, sources) == [name |-> name, sources |-> sources]

\* SchemaObject(name, ...) with its properties
SchemaObject(name) == [name |-> name, properties |-> <<>>]

\* DDLCSession(request, contract, participants) as create_session builds it:
\* a comment is its stage stamp
NewSession ==
    [current_stage |-> REQUEST,
     contract |-> [status |-> PROPOSED,
                   schema_objects |-> <<>>,
                   atlan_table_qualified_name |-> NoneStr,
                   atlan_table_guid |-> NoneStr],
     comments |-> <<>>,
     history |-> <<>>]

\* ------------------------------------------------------------------------
\* DDLC: server.py helpers
\* ------------------------------------------------------------------------

NoError == "None"

\* target_idx == current_idx + 1 without the rejection of a target that
\* skips stages
IsNextStage_forward(current, target) == StageIndex(target) > StageIndex(current)

\* "target_idx != current_idx + 1" negated: the target is the stage after the
\* current one
IsNextStage(current, target) == StageIndex(target) = StageIndex(current) + 1

\* has_table_with_columns testing for a table only
has_table_with_columns_any_table(session) ==
    Len(session.contract.schema_objects) > 0

\* has_table_with_columns = any(len(obj.properties) > 0 for obj in ...)
has_table_with_columns(session) ==
    \E i \in 1..Len(session.contract.schema_objects) :
        Len(session.contract.schema_objects[i].properties) > 0

\* _validate_stage_transition: an error message, or None
validate_stage_transition(session, target) ==
    LET current == session.current_stage
    IN  IF current \in {ACTIVE, REJECTED} THEN "Cannot transition from terminal stage"
        ELSE IF target = REJECTED THEN NoError
        ELSE IF current \notin Range(STAGE_ORDER) \/ target \notin Range(STAGE_ORDER)
             THEN "Invalid transition"
        ELSE IF ~IsNextStage(current, target)
             THEN "Can only advance one stage at a time"
        ELSE IF target = SPECIFICATION
                /\ ~\E i \in 1..Len(session.comments) : session.comments[i] = DISCOVERY
             THEN "At least one discovery comment is required before moving to specification"
        ELSE IF target = REVIEW /\ ~has_table_with_columns(session)
             THEN "At least one table with one or more columns is required before review"
        ELSE IF target = APPROVAL
                /\ ~\E i \in 1..Len(session.comments) : session.comments[i] = REVIEW
             THEN "At least one review comment is required before approval"
        ELSE NoError

\* AdvancedSession without the update of the contract status
AdvancedSession_status_kept(session, target_stage) ==
    [session EXCEPT
        !.history = Append(@, StageTransition(session.current_stage, target_stage,
                                              "participant")),
        !.current_stage = target_stage]

\* The session advance_stage saves once the transition is validated
AdvancedSession(session, target_stage) ==
    [session EXCEPT
        !.history = Append(@, StageTransition(session.current_stage, target_stage,
                                              "participant")),
        !.current_stage = target_stage,
        !.contract.status = IF target_stage \in DOMAIN STAGE_TO_CONTRACT_STATUS
                            THEN STAGE_TO_CONTRACT_STATUS[target_stage] ELSE @]

\* _find_object: the position of the object named obj_name, 0 for the 404
FindObject(session, obj_name) ==
    LET objs == session.contract.schema_objects
        hits == {i \in 1..Len(objs) : objs[i].name = obj_name}
    IN  IF hits = {} THEN 0 ELSE CHOOSE i \in hits : \A j \in hits : i <= j

\* ------------------------------------------------------------------------
\* The state
\* ------------------------------------------------------------------------

VARIABLES
    nuggets_arg,      \* the nuggets argument the engine was constructed with
    archetypes_arg,   \* the archetypes argument the engine was constructed with
    nuggets,          \* self.nuggets
    archetypes,       \* self.archetypes
    skills,           \* self.skills
    evaluations,      \* self.evaluations
    results,          \* the dicts returned by the generate() calls so far
    engines,          \* how many engines were constructed from the arguments
    sessions,         \* store._sessions: session id -> stored session
    created,          \* the session ids create_session has given out
    workflow,         \* session id -> the DDLCApprovalWorkflow started for it
    last,             \* the last request or activity and its outcome
    text,             \* the argument of a _make_slug call
    slug              \* what the call returned, once it has returned

engine_vars ==
    <<nuggets_arg, archetypes_arg, nuggets, archetypes, skills, evaluations,
      results, engines>>

ddlc_vars == <<sessions, created, workflow, last>>

slug_vars == <<text, slug>>

vars ==
    <<nuggets_arg, archetypes_arg, nuggets, archetypes, skills, evaluations,
      results, engines, sessions, created, workflow, last, text, slug>>

\* No engine call was made / no request was served
EngineIdle ==
    /\ nuggets_arg = <<>>
    /\ archetypes_arg = None
    /\ nuggets = <<>>
    /\ archetypes = ARCHETYPES
    /\ skills = <<>>
    /\ evaluations = <<>>
    /\ results = <<>>
    /\ engines = 1

Outcome(op, sid, target, status) ==
    [op |-> op, sid |-> sid, target |-> target, status |-> status]

DdlcIdle ==
    /\ sessions = <<>>
    /\ created = {}
    /\ workflow = <<>>
    /\ last = Outcome("none", NoneStr, NoneStr, 0)

\* A _make_slug call that has not returned / that returned value
Pending == [returned |-> FALSE, value |-> <<>>]

ReturnedSlug(value) == [returned |-> TRUE, value |-> value]

SlugIdle ==
    /\ text = <<>>
    /\ slug = Pending

\* ------------------------------------------------------------------------
\* Blueprint generator: the engine as a state machine
\* ------------------------------------------------------------------------

Self ==
    [nuggets |-> nuggets, archetypes |-> archetypes, skills |-> skills,
     evaluations |-> evaluations]

\* engine = BlueprintEngine(nuggets=..., archetypes=...)
InitEngine ==
    /\ nuggets_arg \in NuggetLists
    /\ archetypes_arg \in ArchetypeArgs
    /\ LET e == BlueprintEngine(nuggets_arg, archetypes_arg)
       IN  /\ nuggets = e.nuggets
           /\ archetypes = e.archetypes
           /\ skills = e.skills
           /\ evaluations = e.evaluations
    /\ results = <<>>
    /\ engines = 1
    /\ DdlcIdle
    /\ SlugIdle

\* result = engine.generate()
Generate ==
    /\ Len(results) < MaxCalls
    /\ results' = Append(results, generate(Self))
    /\ archetypes' = ArchetypesAfterGenerate(Self)
    /\ UNCHANGED <<nuggets_arg, archetypes_arg, nuggets, skills, evaluations, engines>>
    /\ UNCHANGED ddlc_vars
    /\ UNCHANGED slug_vars

\* A second engine constructed from the same arguments
Reconstruct ==
    /\ engines < MaxEngines
    /\ Len(results) >= 1
    /\ LET e == BlueprintEngine(nuggets_arg, archetypes_arg)
       IN  /\ nuggets' = e.nuggets
           /\ archetypes' = e.archetypes
           /\ skills' = e.skills
           /\ evaluations' = e.evaluations
    /\ engines' = engines + 1
    /\ UNCHANGED <<nuggets_arg, archetypes_arg, results>>
    /\ UNCHANGED ddlc_vars
    /\ UNCHANGED slug_vars

NextEngine == Generate \/ Reconstruct

SpecEngine == InitEngine /\ [][NextEngine]_vars

\* ------------------------------------------------------------------------
\* Blueprint generator: properties of generate()
\* ------------------------------------------------------------------------

\* The dict returned by the latest generate() call
Out == results[Len(results)]

Returned == results # <<>>

\* The i-th returned pair: a semantic view and the agent at the same position
OutPairs ==
    [i \in 1..Len(Out.semantic_view_blueprints) |->
        [sv |-> Out.semantic_view_blueprints[i], ab |-> Out.agent_blueprints[i]]]

\* The non-reserved domain tags carried by a nugget of the input
InputDomains ==
    UNION {Range(nuggets[i].domain_tags) : i \in 1..Len(nuggets)} \ SHARED_DOMAIN_TAGS

\* The categories of the skills tagged D and of the skills carrying a
\* reserved tag
ClusterCategories(D) ==
    { nuggets[i].category :
        i \in { j \in 1..Len(nuggets) :
                  /\ nuggets[j].type = "skill"
                  /\ \/ D \in Range(nuggets[j].domain_tags)
                     \/ Range(nuggets[j].domain_tags) \cap SHARED_DOMAIN_TAGS # {} } }

DistinctKeys ==
    \A i, j \in 1..Len(archetypes) : archetypes[i].key = archetypes[j].key => i = j

\* A returned blueprint of agent type key covers domain D
Covers(key, D) ==
    \E i \in 1..Len(OutPairs) :
        /\ OutPairs[i].ab.agent_type = key
        /\ D \in Range(OutPairs[i].sv.domains)

\* C1: with distinct archetype keys, generate() returns a blueprint of agent
\* type A.key covering the non-reserved input domain D exactly when
\* A.required_categories is a subset of the categories of D's cluster skills
\* (the skills tagged D plus the skills carrying a reserved tag).
C1_RequiredCategoryGate ==
    (Returned /\ DistinctKeys) =>
        \A D \in InputDomains : \A i \in 1..Len(archetypes) :
            Covers(archetypes[i].key, D)
                <=> archetypes[i].required_categories \subseteq ClusterCategories(D)

\* C1 witness: one archetype passes the gate for a domain and another
\* archetype fails it for the same domain
C1_Witness ==
    /\ Returned
    /\ DistinctKeys
    /\ \E D \in InputDomains : \E i, j \in 1..Len(archetypes) :
        /\ archetypes[i].required_categories \subseteq ClusterCategories(D)
        /\ Covers(archetypes[i].key, D)
        /\ ~(archetypes[j].required_categories \subseteq ClusterCategories(D))
        /\ ~Covers(archetypes[j].key, D)

\* (agent_type, set of nugget ids) of a pair
PairKey(pair) == <<pair.ab.agent_type, {pair.sv.nugget_ids[i] : i \in 1..Len(pair.sv.nugget_ids)}>>

\* C2: no two returned blueprints have the same agent_type and the same set
\* of nugget ids, and there are as many returned blueprints as distinct
\* (agent_type, nugget id set) keys among the pairs built before
\* deduplication.
C2_DedupKey ==
    Returned =>
        LET built == BuiltPairs(Self)
        IN  /\ \A i, j \in 1..Len(OutPairs) :
                 PairKey(OutPairs[i]) = PairKey(OutPairs[j]) => i = j
            /\ Len(OutPairs) = Cardinality({PairKey(built[i]) : i \in 1..Len(built)})

\* C2 witness: two built pairs list the same nugget ids in different orders
\* for one agent type and come back as one blueprint
C2_Witness ==
    /\ Returned
    /\ LET built == BuiltPairs(Self)
       IN  /\ Len(OutPairs) < Len(built)
           /\ \E i, j \in 1..Len(built) :
                /\ PairKey(built[i]) = PairKey(built[j])
                /\ built[i].sv.nugget_ids # built[j].sv.nugget_ids

\* C3: every returned agent blueprint's semantic_view_id is the id of exactly
\* one returned semantic view blueprint.
C3_ReferentialIntegrity ==
    Returned =>
        \A i \in 1..Len(Out.agent_blueprints) :
            Cardinality({ j \in 1..Len(Out.semantic_view_blueprints) :
                            Out.semantic_view_blueprints[j].id
                                = Out.agent_blueprints[i].semantic_view_id }) = 1

\* How often x occurs in the list l
Count(l, x) == Cardinality({i \in 1..Len(l) : l[i] = x})

\* C4: every domain whose cluster built a pair with a given (agent_type,
\* nugget id set) key occurs exactly once in the domains of the returned
\* blueprint with that key, and that list holds no other domain.
C4_DomainConservation ==
    Returned =>
        LET built == BuiltPairs(Self)
        IN  \A i \in 1..Len(OutPairs) :
                LET from == {k \in 1..Len(built) : PairKey(built[k]) = PairKey(OutPairs[i])}
                IN  /\ \A k \in from : Count(OutPairs[i].sv.domains, built[k].sv.domains[1]) = 1
                    /\ Range(OutPairs[i].sv.domains) = {built[k].sv.domains[1] : k \in from}

\* C4 witness: a returned blueprint merged two domains, and one domain built
\* two pairs with one key
C4_Witness ==
    /\ Returned
    /\ \E i \in 1..Len(OutPairs) : Len(OutPairs[i].sv.domains) = 2
    /\ LET built == BuiltPairs(Self)
       IN  \E k, m \in 1..Len(built) :
                /\ k # m
                /\ PairKey(built[k]) = PairKey(built[m])
                /\ built[k].sv.domains = built[m].sv.domains

\* The nugget ids of the pairs of one agent type
NuggetIdsOf(pairs, agent_type) ==
    UNION { Range(pairs[i].sv.nugget_ids) :
                i \in {k \in 1..Len(pairs) : pairs[k].ab.agent_type = agent_type} }

\* C5: for each agent type, the union of nugget ids over the pairs built
\* before deduplication equals the union over the returned blueprints.
C5_NuggetConservation ==
    Returned =>
        LET built == BuiltPairs(Self)
        IN  \A i \in 1..Len(archetypes) :
                NuggetIdsOf(built, archetypes[i].key) = NuggetIdsOf(OutPairs, archetypes[i].key)

\* C5 witness: pairs were merged while another pair of the same agent type
\* with other nuggets was kept
C5_Witness ==
    /\ Returned
    /\ LET built == BuiltPairs(Self)
       IN  /\ Len(OutPairs) < Len(built)
           /\ \E i, j \in 1..Len(OutPairs) :
                /\ i # j
                /\ OutPairs[i].ab.agent_type = OutPairs[j].ab.agent_type
                /\ Len(OutPairs[i].sv.domains) > 1

C9_DomainsFound ==
    Returned =>
        LET found == Out.metadata.domains_found
        IN  /\ Range(found) = InputDomains
            /\ \A i \in 1..Len(found) - 1 : StrLess(found[i], found[i + 1])
            /\ Range(found) \cap SHARED_DOMAIN_TAGS = {}
            /\ (InputDomains = {} =>
                    /\ found = <<>>
                    /\ Out.semantic_view_blueprints = <<>>
                    /\ Out.agent_blueprints = <<>>)

\* C9 witness: the input carries reserved tags and three domain tags, out of
\* index order, and one of the domains built no blueprint
C9_Witness ==
    /\ Returned
    /\ Len(Out.metadata.domains_found) = 3
    /\ \E i \in 1..Len(nuggets) : Range(nuggets[i].domain_tags) \cap SHARED_DOMAIN_TAGS # {}
    /\ Out.metadata.domains_found # TargetDomains(index_by_domain(Self))
    /\ \E D \in InputDomains : \A i \in 1..Len(OutPairs) : D \notin Range(OutPairs[i].sv.domains)

\* C10: when the caller passes an archetype list, of any length, generate()
\* matches against that list: archetypes_checked is the list's keys in order
\* and every agent_type is a key of the list.
C10_ArchetypeOverride ==
    (Returned /\ ~archetypes_arg.is_none) =>
        /\ Out.metadata.archetypes_checked
             = [i \in 1..Len(archetypes_arg.list) |-> archetypes_arg.list[i].key]
        /\ \A i \in 1..Len(Out.agent_blueprints) :
             \E k \in 1..Len(archetypes_arg.list) :
                Out.agent_blueprints[i].agent_type = archetypes_arg.list[k].key

\* C11: for every archetype whose required_categories is empty and every
\* non-reserved domain D of the index, also a D whose cluster holds no skill
\* at all, generate() builds a pair for that archetype and D, and a returned
\* blueprint of the archetype's key covers D.
C11_EmptyRequiredMatches ==
    Returned =>
        LET built == BuiltPairs(Self)
        IN  \A i \in 1..Len(archetypes) :
                archetypes[i].required_categories = {} =>
                    \A D \in InputDomains :
                        /\ \E k \in 1..Len(built) :
                             /\ built[k].sv.domains = <<D>>
                             /\ built[k].ab.agent_type = archetypes[i].key
                        /\ Covers(archetypes[i].key, D)

\* C11 witness: an archetype without required categories got a blueprint for
\* a domain whose cluster has no skill, shared or tagged
C11_Witness ==
    /\ Returned
    /\ \E i \in 1..Len(archetypes) : \E D \in InputDomains :
        /\ archetypes[i].required_categories = {}
        /\ ClusterCategories(D) = {}
        /\ \E k \in 1..Len(OutPairs) :
             /\ OutPairs[k].ab.agent_type = archetypes[i].key
             /\ D \in Range(OutPairs[k].sv.domains)
             /\ OutPairs[k].sv.skill_nugget_ids = <<>>

\* Some domain cluster of the input holds every required category of the
\* archetype
Satisfiable(archetype) ==
    \E D \in InputDomains : archetype.required_categories \subseteq ClusterCategories(D)

\* No returned blueprint has the agent type key
ContributesNothing(key) ==
    \A k \in 1..Len(Out.agent_blueprints) : Out.agent_blueprints[k].agent_type # key

\* C12 as stated: when every archetype carrying a key has an empty
\* required_categories or one that no domain cluster satisfies, no returned
\* blueprint has that key.
C12_EmptyOrUnsatisfiableContributesNothing ==
    Returned =>
        \A i \in 1..Len(archetypes) :
            (\A j \in 1..Len(archetypes) :
                archetypes[j].key = archetypes[i].key =>
                    \/ archetypes[j].required_categories = {}
                    \/ ~Satisfiable(archetypes[j]))
            => ContributesNothing(archetypes[i].key)

\* C12 amended: when no domain cluster satisfies the required_categories of
\* any archetype carrying a key, no returned blueprint has that key.
C12_UnsatisfiableContributesNothing ==
    Returned =>
        \A i \in 1..Len(archetypes) :
            (\A j \in 1..Len(archetypes) :
                archetypes[j].key = archetypes[i].key => ~Satisfiable(archetypes[j]))
            => ContributesNothing(archetypes[i].key)

\* C12 witness: the input has domains, one archetype is satisfied by none of
\* their clusters and has no blueprint, another archetype has one
C12_Witness ==
    /\ Returned
    /\ InputDomains # {}
    /\ Out.agent_blueprints # <<>>
    /\ \E i \in 1..Len(archetypes) :
        /\ archetypes[i].required_categories # {}
        /\ \A j \in 1..Len(archetypes) :
             archetypes[j].key = archetypes[i].key => ~Satisfiable(archetypes[j])
        /\ ContributesNothing(archetypes[i].key)

\* The nuggets of the input that carry a domain tag
Tagged == SelectSeq(nuggets, LAMBDA n : n.domain_tags # <<>>)

\* A returned dict without the three nugget counts of its metadata
WithoutCounts(result) ==
    [semantic_view_blueprints |-> result.semantic_view_blueprints,
     agent_blueprints |-> result.agent_blueprints,
     domains_found |-> result.metadata.domains_found,
     archetypes_checked |-> result.metadata.archetypes_checked]

\* Every id listed by a returned blueprint
ListedIds ==
    UNION { Range(OutPairs[k].sv.nugget_ids)
              \cup Range(OutPairs[k].sv.skill_nugget_ids)
              \cup Range(OutPairs[k].sv.evaluation_nugget_ids)
              \cup Range(OutPairs[k].ab.evaluation_nugget_ids) : k \in 1..Len(OutPairs) }

\* C13: the id of a nugget with an empty domain_tags list is listed by no
\* returned blueprint, and generate() on the input without those nuggets
\* returns the same dict but for the three nugget counts of the metadata.
C13_UntaggedInert ==
    Returned =>
        /\ \A i \in 1..Len(nuggets) :
             nuggets[i].domain_tags = <<>> => nuggets[i].id \notin ListedIds
        /\ WithoutCounts(Out)
             = WithoutCounts(generate(BlueprintEngine(Tagged, archetypes_arg)))
        /\ Out.metadata.nuggets_analyzed = Len(nuggets)

\* C13 witness: the input holds a skill and an evaluation without tags, the
\* skill's category is the one category an archetype lacks for a domain, and
\* another archetype has a blueprint
C13_Witness ==
    /\ Returned
    /\ Out.agent_blueprints # <<>>
    /\ \E i \in 1..Len(nuggets) :
        nuggets[i].type = "evaluation" /\ nuggets[i].domain_tags = <<>>
    /\ \E i \in 1..Len(nuggets) : \E a \in 1..Len(archetypes) : \E D \in InputDomains :
        /\ nuggets[i].type = "skill"
        /\ nuggets[i].domain_tags = <<>>
        /\ nuggets[i].category \in archetypes[a].required_categories
        /\ archetypes[a].required_categories \ {nuggets[i].category}
             \subseteq ClusterCategories(D)
        /\ ~Covers(archetypes[a].key, D)

\* C14: in every returned pair, nugget_ids is skill_nugget_ids followed by
\* evaluation_nugget_ids, and the agent's evaluation_nugget_ids is the
\* semantic view's.
C14_NuggetIdLists ==
    Returned =>
        \A k \in 1..Len(OutPairs) :
            /\ OutPairs[k].sv.nugget_ids
                 = OutPairs[k].sv.skill_nugget_ids \o OutPairs[k].sv.evaluation_nugget_ids
            /\ OutPairs[k].ab.evaluation_nugget_ids
                 = OutPairs[k].sv.evaluation_nugget_ids

\* C14 witness: a merged pair and an unmerged pair, each listing skills and
\* evaluations
C14_Witness ==
    /\ Returned
    /\ \E k, m \in 1..Len(OutPairs) :
        /\ Len(OutPairs[k].sv.domains) > 1
        /\ Len(OutPairs[m].sv.domains) = 1
        /\ OutPairs[k].sv.skill_nugget_ids # <<>>
        /\ OutPairs[k].sv.evaluation_nugget_ids # <<>>
        /\ OutPairs[m].sv.skill_nugget_ids # <<>>
        /\ OutPairs[m].sv.evaluation_nugget_ids # <<>>

\* The position in the input of the nugget with the given id
PosOf(id) == CHOOSE i \in 1..Len(nuggets) : nuggets[i].id = id

NuggetOf(id) == nuggets[PosOf(id)]

HasReservedTag(n) == Range(n.domain_tags) \cap SHARED_DOMAIN_TAGS # {}

\* C16: in every returned blueprint's skill_nugget_ids no id occurs twice,
\* every listed skill is tagged with the blueprint's first domain or carries
\* a reserved tag, no skill listed only for its reserved tag precedes a skill
\* tagged with the first domain (a skill that is both counts as tagged with
\* the domain), and two skills of the same group are listed in input order.
C16_ClusterSkillOrder ==
    Returned =>
        \A k \in 1..Len(OutPairs) :
            LET ids == OutPairs[k].sv.skill_nugget_ids
                D == OutPairs[k].sv.domains[1]
                Local(id) == D \in Range(NuggetOf(id).domain_tags)
            IN  /\ \A p, q \in 1..Len(ids) : ids[p] = ids[q] => p = q
                /\ \A p \in 1..Len(ids) :
                     /\ NuggetOf(ids[p]).type = "skill"
                     /\ Local(ids[p]) \/ HasReservedTag(NuggetOf(ids[p]))
                /\ \A p, q \in 1..Len(ids) :
                     p < q =>
                        /\ ~(~Local(ids[p]) /\ Local(ids[q]))
                        /\ (Local(ids[p]) <=> Local(ids[q]))
                              => PosOf(ids[p]) < PosOf(ids[q])

\* C16 witness: one blueprint lists a skill that is both domain-tagged and
\* shared before a skill that is shared only and comes earlier in the input,
\* and one lists a skill tagged with its domain only before such a skill
C16_Witness ==
    /\ Returned
    /\ \E k \in 1..Len(OutPairs) :
        LET ids == OutPairs[k].sv.skill_nugget_ids
            D == OutPairs[k].sv.domains[1]
        IN  \E p, r \in 1..Len(ids) :
                /\ p < r
                /\ D \in Range(NuggetOf(ids[p]).domain_tags)
                /\ HasReservedTag(NuggetOf(ids[p]))
                /\ D \notin Range(NuggetOf(ids[r]).domain_tags)
                /\ PosOf(ids[r]) < PosOf(ids[p])
    /\ \E k \in 1..Len(OutPairs) :
        LET ids == OutPairs[k].sv.skill_nugget_ids
            D == OutPairs[k].sv.domains[1]
        IN  \E p, r \in 1..Len(ids) :
                /\ p < r
                /\ D \in Range(NuggetOf(ids[p]).domain_tags)
                /\ ~HasReservedTag(NuggetOf(ids[p]))
                /\ D \notin Range(NuggetOf(ids[r]).domain_tags)
                /\ PosOf(ids[r]) < PosOf(ids[p])

\* The archetype of the engine with the given key (one, under DistinctKeys)
ArchetypeOf(key) ==
    archetypes[CHOOSE i \in 1..Len(archetypes) : archetypes[i].key = key]

\* The ids of the skills of D's cluster: tagged D or carrying a reserved tag
ClusterSkillIds(D) ==
    { nuggets[i].id :
        i \in { j \in 1..Len(nuggets) :
                  /\ nuggets[j].type = "skill"
                  /\ D \in Range(nuggets[j].domain_tags) \/ HasReservedTag(nuggets[j]) } }

\* C17: the skills of a returned blueprint are, for an archetype A of its
\* agent type and each of its domains D, exactly the skills of D's cluster
\* whose category is in A.required_categories or A.optional_categories; and
\* an archetype whose required categories D's cluster holds has a blueprint
\* covering D also when the cluster holds none of its optional categories.
C17_SkillProjection ==
    Returned =>
        /\ \A k \in 1..Len(OutPairs) :
             \E i \in 1..Len(archetypes) :
                LET relevant == archetypes[i].required_categories
                                  \cup archetypes[i].optional_categories
                IN  /\ archetypes[i].key = OutPairs[k].ab.agent_type
                    /\ \A D \in Range(OutPairs[k].sv.domains) :
                         Range(OutPairs[k].sv.skill_nugget_ids)
                            = { id \in ClusterSkillIds(D) :
                                    NuggetOf(id).category \in relevant }
        /\ \A i \in 1..Len(archetypes) : \A D \in InputDomains :
             (/\ archetypes[i].required_categories \subseteq ClusterCategories(D)
              /\ archetypes[i].optional_categories \cap ClusterCategories(D) = {})
                => Covers(archetypes[i].key, D)

\* C17 witness: one blueprint includes a skill of an optional category and
\* leaves out a cluster skill of another category, and another blueprint
\* was built for an archetype with optional categories none of which its
\* cluster holds
C17_Witness ==
    /\ Returned
    /\ DistinctKeys
    /\ \E k \in 1..Len(OutPairs) :
        LET A == ArchetypeOf(OutPairs[k].ab.agent_type)
            ids == Range(OutPairs[k].sv.skill_nugget_ids)
            D == OutPairs[k].sv.domains[1]
        IN  /\ \E id \in ids : NuggetOf(id).category \in A.optional_categories
            /\ ClusterSkillIds(D) \ ids # {}
    /\ \E k \in 1..Len(OutPairs) :
        LET A == ArchetypeOf(OutPairs[k].ab.agent_type)
            D == OutPairs[k].sv.domains[1]
        IN  /\ A.optional_categories # {}
            /\ ClusterCategories(D) # {}
            /\ A.optional_categories \cap ClusterCategories(D) = {}

\* The ids of the evaluation nuggets tagged D, in input order
EvalIdsUnder(D) ==
    LET tagged == SelectSeq(nuggets, LAMBDA n : n.type = "evaluation"
                                                /\ D \in Range(n.domain_tags))
    IN  [i \in 1..Len(tagged) |-> tagged[i].id]

ExpectedLines(ids) ==
    LET line(id) ==
            IF NuggetOf(id).category = STYLE
            THEN <<"Format output using: " \o NuggetOf(id).name>>
            ELSE IF NuggetOf(id).category = DOMAIN_LOGIC
                 THEN <<"Apply domain logic from: " \o NuggetOf(id).name>>
                 ELSE <<>>
        F[i \in 0..Len(ids)] == IF i = 0 THEN <<>> ELSE F[i - 1] \o line(ids[i])
    IN  F[Len(ids)]

\* C19: every returned agent's expected_capabilities is, for an archetype A
\* of its agent type, A.capability_templates followed by one line per listed
\* skill of category STYLE or DOMAIN_LOGIC, in the order of
\* skill_nugget_ids; its length is the number of templates plus the number
\* of those skills.
C19_CapabilityList ==
    Returned =>
        \A k \in 1..Len(OutPairs) :
            \E i \in 1..Len(archetypes) :
                LET ids == OutPairs[k].sv.skill_nugget_ids
                    caps == OutPairs[k].ab.expected_capabilities
                IN  /\ archetypes[i].key = OutPairs[k].ab.agent_type
                    /\ caps = archetypes[i].capability_templates \o ExpectedLines(ids)
                    /\ Len(caps) = Len(archetypes[i].capability_templates)
                         + Cardinality({p \in 1..Len(ids) :
                                NuggetOf(ids[p]).category \in {STYLE, DOMAIN_LOGIC}})

\* C19 witness: an agent lists a STYLE line and a DOMAIN_LOGIC line after
\* its templates, and its skills include one of another category
C19_Witness ==
    /\ Returned
    /\ DistinctKeys
    /\ \E k \in 1..Len(OutPairs) :
        LET ids == OutPairs[k].sv.skill_nugget_ids
        IN  /\ \E p \in 1..Len(ids) : NuggetOf(ids[p]).category = STYLE
            /\ \E p \in 1..Len(ids) : NuggetOf(ids[p]).category = DOMAIN_LOGIC
            /\ \E p \in 1..Len(ids) : NuggetOf(ids[p]).category = DATA_ACCESS
            /\ Len(OutPairs[k].ab.expected_capabilities)
                 = Len(ArchetypeOf(OutPairs[k].ab.agent_type).capability_templates) + 2

\* C20: for every returned pair, with s the slug of the pair's domains sorted
\* and joined by "_", then "_", then the agent type: the semantic view's id
\* is "svb." + s, the agent's id is "agent." + s, and the agent's
\* semantic_view_id is the semantic view's id.
C20_IdentifierConsistency ==
    Returned =>
        \A k \in 1..Len(OutPairs) :
            LET s == make_slug(Join(<<"_">>, Sorted(OutPairs[k].sv.domains))
                                 \o <<"_">> \o OutPairs[k].ab.agent_type)
            IN  /\ OutPairs[k].sv.id = <<"s", "v", "b", ".">> \o s
                /\ OutPairs[k].ab.id = <<"a", "g", "e", "n", "t", ".">> \o s
                /\ OutPairs[k].ab.semantic_view_id = OutPairs[k].sv.id

\* C20 witness: a blueprint merged three domains whose index order is not
\* the sorted order
C20_Witness ==
    /\ Returned
    /\ \E k \in 1..Len(OutPairs) : Len(OutPairs[k].sv.domains) = 3
    /\ Out.metadata.domains_found # TargetDomains(index_by_domain(Self))

\* The position of the archetype with the given key in the engine's list
CatalogPosition(key) == CHOOSE i \in 1..Len(archetypes) : archetypes[i].key = key

\* The skill ids of the pair archetype A builds for domain D: the skills
\* tagged D in input order, then the skills carrying a reserved tag and not
\* tagged D in input order, each of a category A requires or accepts
ExpectedSkillIds(D, A) ==
    LET relevant == A.required_categories \cup A.optional_categories
        local == SelectSeq(nuggets, LAMBDA n : /\ n.type = "skill"
                                                /\ D \in Range(n.domain_tags)
                                                /\ n.category \in relevant)
        shared == SelectSeq(nuggets, LAMBDA n : /\ n.type = "skill"
                                                 /\ D \notin Range(n.domain_tags)
                                                 /\ HasReservedTag(n)
                                                 /\ n.category \in relevant)
        all == local \o shared
    IN  [i \in 1..Len(all) |-> all[i].id]

\* C21: with distinct archetype keys, the returned blueprints are ordered by
\* (smallest domain of the blueprint, position of its archetype in the
\* engine's list); the first domain of a blueprint is its smallest, and the
\* blueprint's skill_nugget_ids, nugget_ids and expected_capabilities are
\* those of the pair built for that domain, whatever the pairs merged into
\* it listed.
C21_FirstSeenSurvivor ==
    (Returned /\ DistinctKeys) =>
        /\ \A k, m \in 1..Len(OutPairs) :
             k < m =>
                LET Dk == OutPairs[k].sv.domains[1]
                    Dm == OutPairs[m].sv.domains[1]
                IN  \/ StrLess(Dk, Dm)
                    \/ /\ Dk = Dm
                       /\ CatalogPosition(OutPairs[k].ab.agent_type)
                            < CatalogPosition(OutPairs[m].ab.agent_type)
        /\ \A k \in 1..Len(OutPairs) :
             LET D == OutPairs[k].sv.domains[1]
                 A == ArchetypeOf(OutPairs[k].ab.agent_type)
                 ids == ExpectedSkillIds(D, A)
             IN  /\ \A i \in 2..Len(OutPairs[k].sv.domains) :
                      StrLess(D, OutPairs[k].sv.domains[i])
                 /\ OutPairs[k].sv.skill_nugget_ids = ids
                 /\ OutPairs[k].sv.nugget_ids = ids \o EvalIdsUnder(D)
                 /\ OutPairs[k].ab.expected_capabilities
                      = A.capability_templates \o ExpectedLines(ids)

\* C21 witness: the index holds the domains out of sorted order, a merged
\* blueprint covers a second domain whose own pair listed the same skills in
\* another order, and a blueprint of another archetype follows it
C21_Witness ==
    /\ Returned
    /\ DistinctKeys
    /\ Out.metadata.domains_found # TargetDomains(index_by_domain(Self))
    /\ \E k, m \in 1..Len(OutPairs) :
        /\ k < m
        /\ OutPairs[k].ab.agent_type # OutPairs[m].ab.agent_type
    /\ \E k \in 1..Len(OutPairs) :
        /\ Len(OutPairs[k].sv.domains) > 1
        /\ ExpectedSkillIds(OutPairs[k].sv.domains[2],
                            ArchetypeOf(OutPairs[k].ab.agent_type))
             # OutPairs[k].sv.skill_nugget_ids

\* A generate() call returned in this step
GenerateReturned == Len(results') = Len(results) + 1

\* C23: a generate() call leaves the engine's nugget list, its skill and
\* evaluation lists with every field of every nugget, and every field of
\* every archetype of its catalog as they were.
C23_Step ==
    GenerateReturned =>
        /\ nuggets' = nuggets
        /\ skills' = skills
        /\ evaluations' = evaluations
        /\ archetypes' = archetypes

C24_DomainsList ==
    Returned =>
        \A k \in 1..Len(Out.semantic_view_blueprints) :
            LET domains == Out.semantic_view_blueprints[k].domains
            IN  /\ domains # <<>>
                /\ \A i, j \in 1..Len(domains) : domains[i] = domains[j] => i = j
                /\ \A i \in 1..Len(domains) - 1 : StrLess(domains[i], domains[i + 1])
                /\ Range(domains) \cap SHARED_DOMAIN_TAGS = {}
                /\ Range(domains) \subseteq Range(Out.metadata.domains_found)

\* C24 witness: the input carries reserved tags and its index holds the
\* domains out of sorted order, one blueprint merged several domains and one
\* domain of domains_found is in no blueprint
C24_Witness ==
    /\ Returned
    /\ \E i \in 1..Len(nuggets) : HasReservedTag(nuggets[i])
    /\ Out.metadata.domains_found # TargetDomains(index_by_domain(Self))
    /\ \E k \in 1..Len(Out.semantic_view_blueprints) :
        Len(Out.semantic_view_blueprints[k].domains) > 1
    /\ \E D \in Range(Out.metadata.domains_found) :
        \A k \in 1..Len(Out.semantic_view_blueprints) :
            D \notin Range(Out.semantic_view_blueprints[k].domains)

\* ------------------------------------------------------------------------
\* Blueprint generator: _make_slug as a function of its argument
\* ------------------------------------------------------------------------

\* Longest argument of a _make_slug call
MaxTextLen == 4

\* The characters of an argument: letters of both cases, space, hyphen,
\* en-dash, em-dash and underscore
SlugAlphabet == {"a", "A", " ", "-", "endash", "emdash", "_"}

Texts == UNION { [1..k -> SlugAlphabet] : k \in 0..MaxTextLen }

InitSlug ==
    /\ EngineIdle
    /\ DdlcIdle
    /\ text \in Texts
    /\ slug = Pending

\* slug = self._make_slug(text)
MakeSlug ==
    /\ ~slug.returned
    /\ slug' = ReturnedSlug(make_slug(text))
    /\ UNCHANGED text
    /\ UNCHANGED engine_vars
    /\ UNCHANGED ddlc_vars

NextSlug == MakeSlug

SpecSlug == InitSlug /\ [][NextSlug]_vars

\* C22: a returned slug holds no upper-case letter, no space, hyphen, en-dash
\* or em-dash and no two consecutive underscores, and neither starts nor ends
\* with an underscore.
C22_SlugNormalForm ==
    slug.returned =>
        LET s == slug.value
        IN  /\ \A i \in 1..Len(s) : s[i] \notin UpperCase \cup {" ", "-", "endash", "emdash"}
            /\ \A i \in 1..Len(s) - 1 : ~(s[i] = "_" /\ s[i + 1] = "_")
            /\ s # <<>> => (s[1] # "_" /\ s[Len(s)] # "_")

\* ------------------------------------------------------------------------
\* DDLC: the session store, the HTTP handlers and the approval workflow
\* ------------------------------------------------------------------------

\* Most comments on one session
MaxComments == 3

\* RetryPolicy(maximum_attempts=6)
maximum_attempts == 6

\* The session ids create_session can draw (uuid4 never repeats one)
SessionIds == {"s1"}

\* Names a payload gives a schema object or a property ("" is a blank name)
ObjNames == {"t1", "t2"}

PropNames == {"c1"}

\* target_stage of a payload: a stage, a missing value or an invalid value
TargetPayloads == DDLCStage \cup {NoneStr, "bogus"}

\* store.get_session(session_id) found a session
Stored(sid) == sid \in DOMAIN sessions

\* store.save_session: _sessions[session.id] = session.model_dump()
Saved(sid, session) == (sid :> session) @@ sessions

\* A DDLCApprovalWorkflow run: the activity it is at, the attempt of that
\* activity, the atlan_qn of activity 1 and the session finalize_activation
\* holds while it awaits asyncio.to_thread
WorkflowRun(pc, attempt, atlan_qn, held) ==
    [pc |-> pc, attempt |-> attempt, atlan_qn |-> atlan_qn, held |-> held]

\* An activity attempt raised: Temporal retries it up to maximum_attempts
\* times, then fails the workflow
AttemptFailed(run) ==
    IF run.attempt >= maximum_attempts
    THEN [run EXCEPT !.pc = "failed", !.held = <<>>]
    ELSE [run EXCEPT !.attempt = @ + 1, !.held = <<>>]

\* POST /api/sessions
create_session(sid) ==
    /\ sid \notin created
    /\ created' = created \cup {sid}
    /\ sessions' = Saved(sid, NewSession)
    /\ last' = Outcome("create_session", sid, NoneStr, 201)
    /\ UNCHANGED workflow

\* DELETE /api/sessions/{session_id}
delete_session(sid) ==
    /\ IF Stored(sid)
       THEN /\ sessions' = [x \in DOMAIN sessions \ {sid} |-> sessions[x]]
            /\ last' = Outcome("delete_session", sid, NoneStr, 200)
       ELSE /\ last' = Outcome("delete_session", sid, NoneStr, 404)
            /\ UNCHANGED sessions
    /\ UNCHANGED <<created, workflow>>

\* PUT /api/sessions/{session_id}/stage; trigger is what
\* trigger_approval_workflow does when the target is ACTIVE: it starts the
\* workflow, raises ImportError (the handler then registers the table itself
\* when Atlan is configured and the registration succeeds) or raises another
\* exception, which leaves the handler
advance_stage(sid, target, trigger) ==
    /\ UNCHANGED created
    /\ IF ~Stored(sid) THEN
            /\ last' = Outcome("advance_stage", sid, target, 404)
            /\ UNCHANGED <<sessions, workflow>>
       ELSE IF target = NoneStr \/ target \notin DDLCStage THEN
            /\ last' = Outcome("advance_stage", sid, target, 400)
            /\ UNCHANGED <<sessions, workflow>>
       ELSE IF validate_stage_transition(sessions[sid], target) # NoError THEN
            /\ last' = Outcome("advance_stage", sid, target, 400)
            /\ UNCHANGED <<sessions, workflow>>
       ELSE LET session == AdvancedSession(sessions[sid], target)
            IN  IF target # ACTIVE THEN
                    /\ sessions' = Saved(sid, session)
                    /\ last' = Outcome("advance_stage", sid, target, 200)
                    /\ UNCHANGED workflow
                ELSE CASE trigger = "started" ->
                            /\ sessions' = Saved(sid, session)
                            /\ workflow' = (sid :> WorkflowRun("create_atlan_placeholder",
                                                               1, "", <<>>)) @@ workflow
                            /\ last' = Outcome("advance_stage", sid, target, 200)
                       [] trigger = "import_error_registered" ->
                            /\ sessions' = Saved(sid,
                                   [session EXCEPT
                                       !.contract.atlan_table_qualified_name = "qn",
                                       !.contract.atlan_table_guid = "guid"])
                            /\ last' = Outcome("advance_stage", sid, target, 200)
                            /\ UNCHANGED workflow
                       [] trigger = "import_error_skipped" ->
                            /\ sessions' = Saved(sid, session)
                            /\ last' = Outcome("advance_stage", sid, target, 200)
                            /\ UNCHANGED workflow
                       [] trigger = "raised" ->
                            /\ sessions' = Saved(sid, session)
                            /\ last' = Outcome("advance_stage", sid, target, 500)
                            /\ UNCHANGED workflow

TriggerOutcomes == {"started", "import_error_registered", "import_error_skipped", "raised"}

\* POST /api/sessions/{session_id}/comments
add_comment(sid) ==
    /\ UNCHANGED <<created, workflow>>
    /\ IF ~Stored(sid) THEN
            /\ last' = Outcome("add_comment", sid, NoneStr, 404)
            /\ UNCHANGED sessions
       ELSE /\ Len(sessions[sid].comments) < MaxComments
            /\ sessions' = Saved(sid, [sessions[sid] EXCEPT
                                !.comments = Append(@, sessions[sid].current_stage)])
            /\ last' = Outcome("add_comment", sid, NoneStr, 201)

\* POST /api/sessions/{session_id}/contract/objects
add_schema_object(sid, name) ==
    /\ UNCHANGED <<created, workflow>>
    /\ IF ~Stored(sid) THEN
            /\ last' = Outcome("add_schema_object", sid, NoneStr, 404)
            /\ UNCHANGED sessions
       ELSE IF name = "" THEN
            /\ last' = Outcome("add_schema_object", sid, NoneStr, 400)
            /\ UNCHANGED sessions
       ELSE IF \E i \in 1..Len(sessions[sid].contract.schema_objects) :
                    sessions[sid].contract.schema_objects[i].name = name THEN
            /\ last' = Outcome("add_schema_object", sid, NoneStr, 409)
            /\ UNCHANGED sessions
       ELSE /\ sessions' = Saved(sid, [sessions[sid] EXCEPT
                                !.contract.schema_objects = Append(@, SchemaObject(name))])
            /\ last' = Outcome("add_schema_object", sid, NoneStr, 201)

\* DELETE /api/sessions/{session_id}/contract/objects/{obj_name}
delete_schema_object(sid, obj_name) ==
    /\ UNCHANGED <<created, workflow>>
    /\ IF ~Stored(sid) THEN
            /\ last' = Outcome("delete_schema_object", sid, NoneStr, 404)
            /\ UNCHANGED sessions
       ELSE LET objs == sessions[sid].contract.schema_objects
                kept == SelectSeq(objs, LAMBDA o : o.name # obj_name)
            IN  IF Len(kept) = Len(objs) THEN
                    /\ last' = Outcome("delete_schema_object", sid, NoneStr, 404)
                    /\ UNCHANGED sessions
                ELSE
                    /\ sessions' = Saved(sid, [sessions[sid] EXCEPT
                                        !.contract.schema_objects = kept])
                    /\ last' = Outcome("delete_schema_object", sid, NoneStr, 200)

\* POST /api/sessions/{session_id}/contract/objects/{obj_name}/properties
add_property(sid, obj_name, name) ==
    /\ UNCHANGED <<created, workflow>>
    /\ IF ~Stored(sid) \/ FindObject(sessions[sid], obj_name) = 0 THEN
            /\ last' = Outcome("add_property", sid, NoneStr, 404)
            /\ UNCHANGED sessions
       ELSE LET k == FindObject(sessions[sid], obj_name)
                props == sessions[sid].contract.schema_objects[k].properties
            IN  IF name = "" THEN
                    /\ last' = Outcome("add_property", sid, NoneStr, 400)
                    /\ UNCHANGED sessions
                ELSE IF \E i \in 1..Len(props) : props[i].name = name THEN
                    /\ last' = Outcome("add_property", sid, NoneStr, 409)
                    /\ UNCHANGED sessions
                ELSE
                    /\ sessions' = Saved(sid, [sessions[sid] EXCEPT
                            !.contract.schema_objects[k].properties =
                                Append(@, SchemaProperty(name, <<>>))])
                    /\ last' = Outcome("add_property", sid, NoneStr, 201)

\* DELETE .../contract/objects/{obj_name}/properties/{prop_name}
delete_property(sid, obj_name, prop_name) ==
    /\ UNCHANGED <<created, workflow>>
    /\ IF ~Stored(sid) \/ FindObject(sessions[sid], obj_name) = 0 THEN
            /\ last' = Outcome("delete_property", sid, NoneStr, 404)
            /\ UNCHANGED sessions
       ELSE LET k == FindObject(sessions[sid], obj_name)
                props == sessions[sid].contract.schema_objects[k].properties
                kept == SelectSeq(props, LAMBDA p : p.name # prop_name)
            IN  IF Len(kept) = Len(props) THEN
                    /\ last' = Outcome("delete_property", sid, NoneStr, 404)
                    /\ UNCHANGED sessions
                ELSE
                    /\ sessions' = Saved(sid, [sessions[sid] EXCEPT
                            !.contract.schema_objects[k].properties = kept])
                    /\ last' = Outcome("delete_property", sid, NoneStr, 200)

\* The workflow started for sid is at the given activity
At(sid, pc) == sid \in DOMAIN workflow /\ workflow[sid].pc = pc

\* Activity 1, create_atlan_placeholder; atlan is what the catalog does:
\* "unconfigured" (returns ""), "created" (returns the qualified name) or
\* "raised"
create_atlan_placeholder(sid, atlan) ==
    /\ At(sid, "create_atlan_placeholder")
    /\ UNCHANGED <<sessions, created>>
    /\ IF ~Stored(sid) \/ atlan = "raised" THEN
            /\ workflow' = [workflow EXCEPT ![sid] = AttemptFailed(@)]
            /\ last' = Outcome("create_atlan_placeholder", sid, NoneStr, 500)
       ELSE /\ workflow' = [workflow EXCEPT ![sid] =
                    WorkflowRun("generate_dbt_artifact", 1,
                                IF atlan = "created" THEN "qn" ELSE "", <<>>)]
            /\ last' = Outcome("create_atlan_placeholder", sid, NoneStr, 200)

AtlanOutcomes == {"unconfigured", "created", "raised"}

\* Activity 2, generate_dbt_artifact
generate_dbt_artifact(sid) ==
    /\ At(sid, "generate_dbt_artifact")
    /\ UNCHANGED <<sessions, created>>
    /\ IF ~Stored(sid) THEN
            /\ workflow' = [workflow EXCEPT ![sid] = AttemptFailed(@)]
            /\ last' = Outcome("generate_dbt_artifact", sid, NoneStr, 500)
       ELSE /\ workflow' = [workflow EXCEPT ![sid] =
                    [@ EXCEPT !.pc = "finalize_activation", !.attempt = 1]]
            /\ last' = Outcome("generate_dbt_artifact", sid, NoneStr, 200)

\* The session finalize_activation builds from the one it read
FinalizedSession(session, atlan_qn) ==
    [session EXCEPT
        !.current_stage = ACTIVE,
        !.history = Append(@, StageTransition(session.current_stage, ACTIVE,
                                              "DDLC Approval Workflow")),
        !.contract.atlan_table_qualified_name = IF atlan_qn # "" THEN atlan_qn ELSE @]

\* Activity 3, finalize_activation, up to its save or to the await of the
\* Atlan lookup (made when atlan_qn is set and Atlan is configured)
finalize_activation(sid, configured) ==
    /\ At(sid, "finalize_activation")
    /\ UNCHANGED created
    /\ IF ~Stored(sid) THEN
            /\ workflow' = [workflow EXCEPT ![sid] = AttemptFailed(@)]
            /\ last' = Outcome("finalize_activation", sid, NoneStr, 500)
            /\ UNCHANGED sessions
       ELSE LET session == FinalizedSession(sessions[sid], workflow[sid].atlan_qn)
            IN  IF workflow[sid].atlan_qn # "" /\ configured THEN
                    /\ workflow' = [workflow EXCEPT ![sid] =
                            [@ EXCEPT !.pc = "finalize_awaiting", !.held = <<session>>]]
                    /\ last' = Outcome("finalize_activation", sid, NoneStr, 0)
                    /\ UNCHANGED sessions
                ELSE
                    /\ sessions' = Saved(sid, session)
                    /\ workflow' = [workflow EXCEPT ![sid] = [@ EXCEPT !.pc = "completed"]]
                    /\ last' = Outcome("finalize_activation", sid, NoneStr, 200)

\* finalize_activation from the return of the Atlan lookup: the GUID is
\* recorded when the asset was found, and the held session is saved
finalize_activation_resume(sid, found) ==
    /\ At(sid, "finalize_awaiting")
    /\ UNCHANGED created
    /\ LET held == workflow[sid].held[1]
       IN  sessions' = Saved(sid, IF found
                                  THEN [held EXCEPT !.contract.atlan_table_guid = "guid"]
                                  ELSE held)
    /\ workflow' = [workflow EXCEPT ![sid] = [@ EXCEPT !.pc = "completed", !.held = <<>>]]
    /\ last' = Outcome("finalize_activation", sid, NoneStr, 200)

InitDDLC ==
    /\ EngineIdle
    /\ DdlcIdle
    /\ SlugIdle

NextDDLC ==
    /\ UNCHANGED engine_vars
    /\ UNCHANGED slug_vars
    /\ \E sid \in SessionIds :
        \/ create_session(sid)
        \/ delete_session(sid)
        \/ \E target \in TargetPayloads, trigger \in TriggerOutcomes :
                advance_stage(sid, target, trigger)
        \/ add_comment(sid)
        \/ \E name \in ObjNames \cup {""} : add_schema_object(sid, name)
        \/ \E name \in ObjNames : delete_schema_object(sid, name)
        \/ \E obj \in ObjNames, name \in PropNames \cup {""} : add_property(sid, obj, name)
        \/ \E obj \in ObjNames, name \in PropNames : delete_property(sid, obj, name)
        \/ \E atlan \in AtlanOutcomes : create_atlan_placeholder(sid, atlan)
        \/ generate_dbt_artifact(sid)
        \/ \E configured \in BOOLEAN : finalize_activation(sid, configured)
        \/ \E found \in BOOLEAN : finalize_activation_resume(sid, found)

SpecDDLC == InitDDLC /\ [][NextDDLC]_vars

\* ------------------------------------------------------------------------
\* DDLC: properties of advance_stage
\* ------------------------------------------------------------------------

\* The lifecycle request -> discovery -> specification -> review -> approval
\* -> active
Successor(stage) ==
    CASE stage = REQUEST -> DISCOVERY
      [] stage = DISCOVERY -> SPECIFICATION
      [] stage = SPECIFICATION -> REVIEW
      [] stage = REVIEW -> APPROVAL
      [] stage = APPROVAL -> ACTIVE
      [] OTHER -> NoneStr

\* The step is an advance_stage request for the stored session sid
AdvanceRequest(sid) ==
    /\ last'.op = "advance_stage"
    /\ last'.sid = sid
    /\ sid \in DOMAIN sessions
    /\ sid \in DOMAIN sessions'

\* The request was accepted: it answered 200 or it changed the stored stage
Accepted(sid) ==
    \/ last'.status = 200
    \/ sessions'[sid].current_stage # sessions[sid].current_stage

C7_Step ==
    \A sid \in SessionIds :
        AdvanceRequest(sid) =>
            LET current == sessions[sid].current_stage
                target == last'.target
            IN  /\ Accepted(sid) =>
                    /\ current \notin {ACTIVE, REJECTED}
                    /\ target = REJECTED \/ target = Successor(current)
                    /\ sessions'[sid].current_stage = target
                /\ ~Accepted(sid) => sessions'[sid].current_stage = current
                /\ current \in {ACTIVE, REJECTED} =>
                        sessions'[sid].current_stage = current

\* C7: advance_stage accepts a target only when the current stage is not
\* terminal and the target is REJECTED or the successor of the current stage
\* in the lifecycle; an accepted request sets the stage to its target, a
\* refused one leaves the stage, and no request changes the stage of an
\* ACTIVE or REJECTED session.
C7_StageChain == [][C7_Step]_vars

\* C7 witness: a session walked the whole chain to ACTIVE and a further
\* advance_stage request was refused
C7_Witness ==
    \E sid \in DOMAIN sessions :
        /\ sessions[sid].current_stage = ACTIVE
        /\ Len(sessions[sid].history) = 5
        /\ last.op = "advance_stage"
        /\ last.status = 400

HasComment(session, stage) ==
    \E i \in 1..Len(session.comments) : session.comments[i] = stage

HasColumns(session) ==
    \E i \in 1..Len(session.contract.schema_objects) :
        session.contract.schema_objects[i].properties # <<>>

C8_Step ==
    \A sid \in SessionIds :
        AdvanceRequest(sid) =>
            LET before == sessions[sid]
                target == last'.target
                moved == /\ sessions'[sid].current_stage = target
                         /\ before.current_stage # target
            IN  /\ (moved /\ target = SPECIFICATION) => HasComment(before, DISCOVERY)
                /\ (moved /\ target = REVIEW) => HasColumns(before)
                /\ (moved /\ target = APPROVAL) => HasComment(before, REVIEW)
                /\ (before.current_stage = REQUEST /\ target = DISCOVERY) => moved
                /\ (before.current_stage = APPROVAL /\ target = ACTIVE) => moved

\* C8: advance_stage moves a session to SPECIFICATION only if it has a
\* comment stamped DISCOVERY, to REVIEW only if a schema object has a
\* property, and to APPROVAL only if it has a comment stamped REVIEW; from
\* REQUEST to DISCOVERY and from APPROVAL to ACTIVE it moves it whatever the
\* session holds.
C8_StageGuards == [][C8_Step]_vars

\* C8 witness: a request for REVIEW was refused for a session whose only
\* table has no column
C8_Witness ==
    \E sid \in DOMAIN sessions :
        /\ sessions[sid].current_stage = SPECIFICATION
        /\ Len(sessions[sid].contract.schema_objects) = 1
        /\ ~HasColumns(sessions[sid])
        /\ HasComment(sessions[sid], DISCOVERY)
        /\ last = Outcome("advance_stage", sid, REVIEW, 400)

\* ------------------------------------------------------------------------
\* DDLC: the activation workflow
\* ------------------------------------------------------------------------

\* create_atlan_placeholder and generate_dbt_artifact have both returned in
\* the workflow started for sid
ActivitiesSucceeded(sid) ==
    /\ sid \in DOMAIN workflow
    /\ workflow[sid].pc \in {"finalize_activation", "finalize_awaiting", "completed"}

\* C15: whenever a stored session's stage is ACTIVE, create_atlan_placeholder
\* and generate_dbt_artifact have both completed successfully for that
\* session (the stage becomes ACTIVE at finalize_activation only).
C15_ActivationCommitPoint ==
    \A sid \in DOMAIN sessions :
        sessions[sid].current_stage = ACTIVE => ActivitiesSucceeded(sid)

\* ------------------------------------------------------------------------
\* DDLC: the workflow next to the HTTP handlers
\* ------------------------------------------------------------------------

\* The step is the save of finalize_activation on the stored session sid
ActivationSave(sid) ==
    /\ last' = Outcome("finalize_activation", sid, NoneStr, 200)
    /\ sid \in DOMAIN sessions
    /\ sid \in DOMAIN workflow
    /\ workflow[sid].pc \in {"finalize_activation", "finalize_awaiting"}
    /\ workflow'[sid].pc = "completed"

C25_Step ==
    \A sid \in SessionIds :
        ActivationSave(sid) =>
            /\ sessions'[sid].comments = sessions[sid].comments
            /\ sessions'[sid].contract.schema_objects =
                    sessions[sid].contract.schema_objects

\* C25: the save of finalize_activation overwrites no newer stored version
\* with a stale copy: the comments and the schema objects a handler saved
\* while the activity was suspended on its Atlan lookup are still in the
\* stored session after the activity's save.
C25_NoLostUpdate == [][C25_Step]_vars

\* ------------------------------------------------------------------------
\* DDLC: the contract status and the stage history
\* ------------------------------------------------------------------------

\* The contract status of every stored session that is not REJECTED is the
\* one STAGE_TO_CONTRACT_STATUS gives its stage
StatusTracksStage ==
    \A sid \in DOMAIN sessions :
        sessions[sid].current_stage # REJECTED =>
            sessions[sid].contract.status =
                STAGE_TO_CONTRACT_STATUS[sessions[sid].current_stage]

\* A step that makes a stored session REJECTED keeps its contract status
RejectionKeepsStatus ==
    \A sid \in DOMAIN sessions \cap DOMAIN sessions' :
        (sessions[sid].current_stage # REJECTED
            /\ sessions'[sid].current_stage = REJECTED) =>
                sessions'[sid].contract.status = sessions[sid].contract.status

\* C26: after any sequence of requests and workflow activities, the contract
\* status of a session created by create_session whose stage is not REJECTED
\* equals STAGE_TO_CONTRACT_STATUS[current_stage], and a transition to
\* REJECTED leaves the contract status unchanged.
C26_StatusTracksStage == []StatusTracksStage /\ [][RejectionKeepsStatus]_vars

\* C26 witness: a session was rejected at review and keeps the draft status,
\* the status of no stage it could otherwise be mapped to by its stage
C26_Witness ==
    \E sid \in DOMAIN sessions :
        /\ sessions[sid].current_stage = REJECTED
        /\ sessions[sid].contract.status = DRAFT
        /\ Len(sessions[sid].history) = 4
        /\ last = Outcome("advance_stage", sid, REJECTED, 200)

\* The history of a session is a chain from REQUEST to its current stage
\* with no entry from a stage to itself
HistoryChain(session) ==
    LET history == session.history
    IN  /\ \A i \in 1..Len(history) :
                /\ history[i].from_stage =
                        (IF i = 1 THEN REQUEST ELSE history[i - 1].to_stage)
                /\ history[i].from_stage # history[i].to_stage
        /\ (IF history = <<>> THEN REQUEST ELSE history[Len(history)].to_stage)
                = session.current_stage

\* A step appends to the history of a stored session one entry when it
\* changes the stage and nothing when it does not
HistoryStep ==
    \A sid \in DOMAIN sessions \cap DOMAIN sessions' :
        LET before == sessions[sid].history
            after == sessions'[sid].history
            changes == IF sessions'[sid].current_stage = sessions[sid].current_stage
                       THEN 0 ELSE 1
        IN  /\ Len(after) = Len(before) + changes
            /\ SubSeq(after, 1, Len(before)) = before

\* C27: after any sequence of advance_stage requests and workflow activities
\* the history of a session is append-only, has exactly one entry per stage
\* change, ends at current_stage, links each from_stage to the previous
\* to_stage (REQUEST first) and has no entry with from_stage = to_stage.
C27_HistoryAuditChain ==
    /\ [](\A sid \in DOMAIN sessions : HistoryChain(sessions[sid]))
    /\ [][HistoryStep]_vars

\* ------------------------------------------------------------------------
\* DDLC: requests that fail
\* ------------------------------------------------------------------------

C28_Step ==
    \A sid \in SessionIds :
        (last'.op = "advance_stage" /\ last'.sid = sid /\ last'.status # 200) =>
            sessions' = sessions

\* C28: an advance_stage request that does not answer with success (unknown
\* session, missing or invalid target_stage, refused transition, failure
\* while starting the approval workflow) leaves the stored session as it
\* was: same current_stage, same history, same contract status.
C28_FailedAdvanceUnchanged == [][C28_Step]_vars

\* ------------------------------------------------------------------------
\* DDLC: the contents the stage guards asked for
\* ------------------------------------------------------------------------

\* C29: every stored session at REVIEW, APPROVAL or ACTIVE has a schema
\* object with at least one property, every one at SPECIFICATION or later
\* has a DISCOVERY comment and every one at APPROVAL or later has a REVIEW
\* comment, whatever requests were served after the guarded transition.
C29_GuardsPersist ==
    \A sid \in DOMAIN sessions :
        LET session == sessions[sid]
            stage == session.current_stage
        IN  /\ stage \in {REVIEW, APPROVAL, ACTIVE} => HasColumns(session)
            /\ stage \in {SPECIFICATION, REVIEW, APPROVAL, ACTIVE} =>
                    HasComment(session, DISCOVERY)
            /\ stage \in {APPROVAL, ACTIVE} => HasComment(session, REVIEW)

\* ------------------------------------------------------------------------
\* DDLC: the handlers that edit the schema of a contract
\* ------------------------------------------------------------------------

\* Most lineage sources on one property
MaxSources == 1

\* Most items in the list of a batch request
MaxItems == 2

\* Table names of one character, so that str.upper() is UpperChar
TableNames == {"t", "T"}

ColumnNames == {"c1", "c2"}

\* What atlan_assets.get_table_columns does: it returns the columns of the
\* catalog table, by name, or it raises
Returns(columns) == [raised |-> FALSE, columns |-> columns]

Raises == [raised |-> TRUE, columns |-> <<>>]

CatalogAnswers == {Returns(<<"c1">>), Returns(<<"c2", "c1">>), Raises}

\* The lists of at most MaxItems items
Lists(items) == UNION { [1..k -> items] : k \in 0..MaxItems }

\* payload["mappings"]: target_column_name and source_column of each mapping
\* ("" for a missing one); every mapping names the source table "src"
MappingPayloads ==
    Lists({[target_column_name |-> "", source_column |-> ""],
           [target_column_name |-> "", source_column |-> "c1"],
           [target_column_name |-> "c1", source_column |-> "c1"],
           [target_column_name |-> "c2", source_column |-> "c1"]})

\* payload["tables"]: name and qualified_name of each table
TablePayloads == Lists([name : TableNames, qualified_name : {"", "qn"}])

\* _find_property: the position of the property named prop_name, 0 for the 404
FindProperty(obj, prop_name) ==
    LET hits == {i \in 1..Len(obj.properties) : obj.properties[i].name = prop_name}
    IN  IF hits = {} THEN 0 ELSE CHOOSE i \in hits : \A j \in hits : i <= j

\* No property carries more than MaxSources sources
WithinSources(objs) ==
    \A k \in 1..Len(objs) : \A i \in 1..Len(objs[k].properties) :
        Len(objs[k].properties[i].sources) <= MaxSources

\* PUT .../contract/objects/{obj_name}/properties/{prop_name}; name is
\* payload["name"], NoneStr for a payload without one
update_property(sid, obj_name, prop_name, name) ==
    /\ UNCHANGED <<created, workflow>>
    /\ IF ~Stored(sid) \/ FindObject(sessions[sid], obj_name) = 0 THEN
            /\ last' = Outcome("update_property", sid, NoneStr, 404)
            /\ UNCHANGED sessions
       ELSE LET k == FindObject(sessions[sid], obj_name)
                obj == sessions[sid].contract.schema_objects[k]
                p == FindProperty(obj, prop_name)
            IN  IF p = 0 THEN
                    /\ last' = Outcome("update_property", sid, NoneStr, 404)
                    /\ UNCHANGED sessions
                ELSE IF name = NoneStr \/ name = prop_name THEN
                    /\ sessions' = Saved(sid, sessions[sid])
                    /\ last' = Outcome("update_property", sid, NoneStr, 200)
                ELSE IF name = "" THEN
                    /\ last' = Outcome("update_property", sid, NoneStr, 400)
                    /\ UNCHANGED sessions
                ELSE IF \E i \in 1..Len(obj.properties) :
                            /\ obj.properties[i].name # prop_name
                            /\ obj.properties[i].name = name THEN
                    /\ last' = Outcome("update_property", sid, NoneStr, 409)
                    /\ UNCHANGED sessions
                ELSE
                    /\ sessions' = Saved(sid, [sessions[sid] EXCEPT
                            !.contract.schema_objects[k].properties[p].name = name])
                    /\ last' = Outcome("update_property", sid, NoneStr, 200)

\* map_source_columns creating a property for every mapping, also for a
\* target name the object has
MapColumn_always_append(props, m) ==
    LET target_name == IF m.target_column_name # "" THEN m.target_column_name
                       ELSE m.source_column
    IN  IF target_name = "" THEN props
        ELSE Append(props, SchemaProperty(target_name,
                                          <<ColumnSource("src", m.source_column)>>))

\* One turn of the loop of map_source_columns: the mapping is skipped, adds
\* its source to the property that has the target name, or adds a property
MapColumn(props, m) ==
    LET target_name == IF m.target_column_name # "" THEN m.target_column_name
                       ELSE m.source_column
        source_entry == ColumnSource("src", m.source_column)
        existing == {i \in 1..Len(props) : props[i].name = target_name}
    IN  IF target_name = "" THEN props
        ELSE IF existing # {} THEN
            LET i == CHOOSE i \in existing : \A j \in existing : i <= j
            IN  IF source_entry \in Range(props[i].sources) THEN props
                ELSE [props EXCEPT ![i].sources = Append(@, source_entry)]
        ELSE Append(props, SchemaProperty(target_name, <<source_entry>>))

RECURSIVE MapColumns(_, _)
MapColumns(props, mappings) ==
    IF mappings = <<>> THEN props
    ELSE MapColumns(MapColumn(props, mappings[1]), Tail(mappings))

\* POST .../contract/objects/{obj_name}/map-columns
map_source_columns(sid, obj_name, mappings) ==
    /\ UNCHANGED <<created, workflow>>
    /\ IF ~Stored(sid) \/ FindObject(sessions[sid], obj_name) = 0 THEN
            /\ last' = Outcome("map_source_columns", sid, NoneStr, 404)
            /\ UNCHANGED sessions
       ELSE IF mappings = <<>> THEN
            /\ last' = Outcome("map_source_columns", sid, NoneStr, 400)
            /\ UNCHANGED sessions
       ELSE LET k == FindObject(sessions[sid], obj_name)
                session == [sessions[sid] EXCEPT
                               !.contract.schema_objects[k].properties =
                                    MapColumns(@, mappings)]
            IN  /\ WithinSources(session.contract.schema_objects)
                /\ sessions' = Saved(sid, session)
                /\ last' = Outcome("map_source_columns", sid, NoneStr, 201)

\* One turn of the loop of import_columns_from_atlan: the column adds a
\* source to the first property of its name, or adds a property
ImportColumn(props, col_name, source_qualified_name) ==
    LET source == ColumnSource(source_qualified_name, col_name)
        existing == {i \in 1..Len(props) : props[i].name = col_name}
    IN  IF existing # {} THEN
            LET i == CHOOSE i \in existing : \A j \in existing : i <= j
            IN  [props EXCEPT ![i].sources = Append(@, source)]
        ELSE Append(props, SchemaProperty(col_name, <<source>>))

RECURSIVE ImportColumns(_, _, _)
ImportColumns(props, columns, source_qualified_name) ==
    IF columns = <<>> THEN props
    ELSE ImportColumns(ImportColumn(props, columns[1], source_qualified_name),
                       Tail(columns), source_qualified_name)

\* POST .../contract/objects/{obj_name}/import-from-atlan; configured is
\* atlan_assets.is_configured(), answer what get_table_columns does
import_columns_from_atlan(sid, obj_name, configured, qualified_name, answer) ==
    /\ UNCHANGED <<created, workflow>>
    /\ IF ~configured THEN
            /\ last' = Outcome("import_columns_from_atlan", sid, NoneStr, 503)
            /\ UNCHANGED sessions
       ELSE IF ~Stored(sid) \/ FindObject(sessions[sid], obj_name) = 0 THEN
            /\ last' = Outcome("import_columns_from_atlan", sid, NoneStr, 404)
            /\ UNCHANGED sessions
       ELSE IF qualified_name = "" THEN
            /\ last' = Outcome("import_columns_from_atlan", sid, NoneStr, 400)
            /\ UNCHANGED sessions
       ELSE IF answer.raised THEN
            /\ last' = Outcome("import_columns_from_atlan", sid, NoneStr, 500)
            /\ UNCHANGED sessions
       ELSE LET k == FindObject(sessions[sid], obj_name)
                session == [sessions[sid] EXCEPT
                               !.contract.schema_objects[k].properties =
                                    ImportColumns(@, answer.columns, qualified_name)]
            IN  /\ WithinSources(session.contract.schema_objects)
                /\ sessions' = Saved(sid, session)
                /\ last' = Outcome("import_columns_from_atlan", sid, NoneStr, 200)

\* The SchemaObject bulk_import_from_atlan builds for a table: its columns
\* are fetched when it has a qualified name, and a failed fetch leaves it
\* without properties
ImportedObject(tbl, answer) ==
    [name |-> tbl.name,
     properties |->
        IF tbl.qualified_name = "" \/ answer.raised THEN <<>>
        ELSE [i \in 1..Len(answer.columns) |->
                SchemaProperty(answer.columns[i],
                               <<ColumnSource(tbl.name, answer.columns[i])>>)]]

\* The loop of bulk_import_from_atlan: a table whose upper-cased name is in
\* existing_names is skipped
RECURSIVE BulkImport(_, _, _)
BulkImport(objs, tables, answer) ==
    IF tables = <<>> THEN objs
    ELSE LET existing_names == {UpperChar(objs[i].name) : i \in 1..Len(objs)}
             tbl == tables[1]
         IN  IF UpperChar(tbl.name) \in existing_names
             THEN BulkImport(objs, Tail(tables), answer)
             ELSE BulkImport(Append(objs, ImportedObject(tbl, answer)),
                             Tail(tables), answer)

\* POST .../contract/objects/bulk-import-from-atlan
bulk_import_from_atlan(sid, configured, tables, answer) ==
    /\ UNCHANGED <<created, workflow>>
    /\ IF ~configured THEN
            /\ last' = Outcome("bulk_import_from_atlan", sid, NoneStr, 503)
            /\ UNCHANGED sessions
       ELSE IF ~Stored(sid) THEN
            /\ last' = Outcome("bulk_import_from_atlan", sid, NoneStr, 404)
            /\ UNCHANGED sessions
       ELSE IF tables = <<>> THEN
            /\ last' = Outcome("bulk_import_from_atlan", sid, NoneStr, 400)
            /\ UNCHANGED sessions
       ELSE /\ sessions' = Saved(sid, [sessions[sid] EXCEPT
                    !.contract.schema_objects = BulkImport(@, tables, answer)])
            /\ last' = Outcome("bulk_import_from_atlan", sid, NoneStr, 200)

InitSchema ==
    /\ EngineIdle
    /\ DdlcIdle
    /\ SlugIdle

NextSchema ==
    /\ UNCHANGED engine_vars
    /\ UNCHANGED slug_vars
    /\ \E sid \in SessionIds :
        \/ create_session(sid)
        \/ \E name \in TableNames \cup {""} : add_schema_object(sid, name)
        \/ \E tables \in TablePayloads, answer \in CatalogAnswers,
              configured \in BOOLEAN :
                bulk_import_from_atlan(sid, configured, tables, answer)
        \/ \E name \in TableNames : delete_schema_object(sid, name)
        \/ \E obj \in TableNames, name \in ColumnNames \cup {""} :
                add_property(sid, obj, name)
        \/ \E obj \in TableNames, prop \in ColumnNames,
              name \in ColumnNames \cup {"", NoneStr} :
                update_property(sid, obj, prop, name)
        \/ \E obj \in TableNames, mappings \in MappingPayloads :
                map_source_columns(sid, obj, mappings)
        \/ \E obj \in TableNames, answer \in CatalogAnswers,
              qualified_name \in {"", "qn"}, configured \in BOOLEAN :
                import_columns_from_atlan(sid, obj, configured, qualified_name, answer)
        \/ \E obj \in TableNames, name \in ColumnNames : delete_property(sid, obj, name)

SpecSchema == InitSchema /\ [][NextSchema]_vars

\* ------------------------------------------------------------------------
\* DDLC: names in a contract
\* ------------------------------------------------------------------------

ObjectNamesOf(session) ==
    [k \in 1..Len(session.contract.schema_objects) |->
        session.contract.schema_objects[k].name]

PropertyNamesOf(obj) == [i \in 1..Len(obj.properties) |-> obj.properties[i].name]

\* No two schema objects of a stored session have the same name and no two
\* properties of one schema object have the same name
UniqueNames ==
    \A sid \in DOMAIN sessions :
        /\ NoDup(ObjectNamesOf(sessions[sid]))
        /\ \A k \in 1..Len(sessions[sid].contract.schema_objects) :
                NoDup(PropertyNamesOf(sessions[sid].contract.schema_objects[k]))

\* The object named obj_name of the stored session sid has a property name
HasProperty(sid, obj_name, name) ==
    /\ Stored(sid)
    /\ FindObject(sessions[sid], obj_name) # 0
    /\ name \in Range(PropertyNamesOf(
            sessions[sid].contract.schema_objects[FindObject(sessions[sid], obj_name)]))

\* The step is a request for the stored session sid that names, for a new
\* schema object or property, a name that is taken
DuplicateRequest(sid) ==
    \/ /\ last'.op = "add_schema_object"
       /\ \E name \in TableNames :
            /\ FindObject(sessions[sid], name) # 0
            /\ add_schema_object(sid, name)
    \/ /\ last'.op = "add_property"
       /\ \E obj \in TableNames, name \in ColumnNames :
            /\ HasProperty(sid, obj, name)
            /\ add_property(sid, obj, name)
    \/ /\ last'.op = "update_property"
       /\ \E obj \in TableNames, prop \in ColumnNames, name \in ColumnNames :
            /\ name # prop
            /\ HasProperty(sid, obj, name)
            /\ update_property(sid, obj, prop, name)
    \/ /\ last'.op = "map_source_columns"
       /\ \E obj \in TableNames, mappings \in MappingPayloads :
            /\ \E i \in 1..Len(mappings) :
                    HasProperty(sid, obj, mappings[i].target_column_name)
            /\ map_source_columns(sid, obj, mappings)
    \/ /\ last'.op = "import_columns_from_atlan"
       /\ \E obj \in TableNames, answer \in CatalogAnswers :
            /\ \E i \in 1..Len(answer.columns) :
                    HasProperty(sid, obj, answer.columns[i])
            /\ import_columns_from_atlan(sid, obj, TRUE, "qn", answer)
    \/ /\ last'.op = "bulk_import_from_atlan"
       /\ \E tables \in TablePayloads, answer \in CatalogAnswers :
            /\ \E i \in 1..Len(tables) : FindObject(sessions[sid], tables[i].name) # 0
            /\ bulk_import_from_atlan(sid, TRUE, tables, answer)

C30_DuplicateStep ==
    \A sid \in DOMAIN sessions : DuplicateRequest(sid) => sessions' = sessions

AddingOps ==
    {"add_schema_object", "bulk_import_from_atlan", "add_property",
     "map_source_columns", "import_columns_from_atlan"}

\* The step leaves every schema object and every property of the stored
\* session sid at its place, under its name
NamesKept(sid) ==
    LET before == sessions[sid].contract.schema_objects
        after == sessions'[sid].contract.schema_objects
    IN  /\ Len(before) <= Len(after)
        /\ \A k \in 1..Len(before) :
                /\ after[k].name = before[k].name
                /\ Len(before[k].properties) <= Len(after[k].properties)
                /\ \A i \in 1..Len(before[k].properties) :
                        after[k].properties[i].name = before[k].properties[i].name

C30_AmendedStep ==
    \A sid \in DOMAIN sessions \cap DOMAIN sessions' :
        /\ last'.status = 409 => sessions' = sessions
        /\ last'.op \in AddingOps => NamesKept(sid)

====
